---- MODULE Spec2Model ----
(***************************************************************************)
(* Lorentz++ four-vectors and boosts of the Dirac++ toolkit.               *)
(*                                                                         *)
(* LDouble_t values are modelled in exact arithmetic.  A component is a    *)
(* rational [n, d] in lowest terms.  A value that may be a square root     *)
(* (Resolution(), Invariant(), DistanceTo()) is a "real" [s, q]: the sign  *)
(* s and the rational square q of the value, so that sqrt is exact and the *)
(* order of two reals is the order of their signed squares.                *)
(* Floating-point rounding is not modelled.                                *)
(***************************************************************************)
EXTENDS Integers, Sequences, FiniteSets, TLC

\* Grid components of the vectors drawn as inputs lie in -MaxC..MaxC.
MaxC == 1
\* operator[] is tried with every index in -MaxIdx..(3 + MaxIdx).
MaxIdx == 2

MaxSeed == 1

VARIABLES
    fVector,    \* TFourVectorReal::fVector[0..3] of the vector object
    made,       \* the components the vector was constructed with
    op,         \* the member function called last
    idx,        \* operator[]: the index passed
    other,      \* operator==, operator!=: the right-hand operand
    beta,       \* Boost, SetBeta: the velocity passed
    ret,        \* the LDouble_t returned
    retBool,    \* the Bool_t returned
    err,        \* the message Error() reported during the call, "" if none
    fMatrix,    \* TLorentzTransform::fMatrix[0..3][0..3] of the boost object
    prod,       \* the TLorentzTransform returned by operator*
    particles,  \* the caller's TPhoton and TLepton objects, in argument order
    chain,      \* the spinor products for the momenta of these particles
    spinors,    \* the TDiracSpinor arrays the reaction function called built
    invAmp,     \* the array invAmp[2]...[2] of the reaction function called
    ampSquared, \* the local ampSquared of the reaction function called last
    diffXsect,  \* the LDouble_t a reaction function returned
    log,        \* the warnings written to std::cout
    first       \* the first reaction call of the run: function, arguments, value,
                \* and whether a different call has been made since

vars ==
    <<fVector, made, op, idx, other, beta, ret, retBool, err, fMatrix, prod,
      particles, chain, spinors, invAmp, ampSquared, diffXsect, log, first>>

\* The state of a run of TCrossSection calls.
xsVars ==
    <<particles, chain, spinors, invAmp, ampSquared, diffXsect, log, first>>

\* The state of a run on a vector, boost or rotation object.
objVars ==
    <<fVector, made, idx, other, beta, ret, retBool, err, fMatrix, prod>>

----------------------------------------------------------------------------
\* LDouble_t arithmetic, exact.

Abs(x) == IF x < 0 THEN -x ELSE x

Sign(x) == IF x < 0 THEN -1 ELSE IF x = 0 THEN 0 ELSE 1

RECURSIVE GCD(_, _)
GCD(a, b) == IF b = 0 THEN a ELSE GCD(b, a % b)

LCM(a, b) == (a \div GCD(a, b)) * b

Rat(n, d) ==
    LET g == GCD(Abs(n), Abs(d))
        s == IF d < 0 THEN -1 ELSE 1
    IN  [n |-> (s * n) \div g, d |-> (s * d) \div g]

RInt(k) == [n |-> k, d |-> 1]

RZero == RInt(0)

ROne == RInt(1)

RAdd(a, b) ==
    IF a.d = 1 /\ b.d = 1
    THEN [n |-> a.n + b.n, d |-> 1]
    ELSE LET l == LCM(a.d, b.d)
         IN  Rat(a.n * (l \div a.d) + b.n * (l \div b.d), l)

RNeg(a) == [n |-> -a.n, d |-> a.d]

RSub(a, b) == RAdd(a, RNeg(b))

RMul(a, b) ==
    IF a.d = 1 /\ b.d = 1
    THEN [n |-> a.n * b.n, d |-> 1]
    ELSE LET g1 == GCD(Abs(a.n), b.d)
             g2 == GCD(Abs(b.n), a.d)
         IN  [n |-> (a.n \div g1) * (b.n \div g2),
              d |-> (a.d \div g2) * (b.d \div g1)]

RDiv(a, b) == RMul(a, Rat(b.d, b.n))

RLess(a, b) ==
    IF a.d = b.d
    THEN a.n < b.n
    ELSE LET l == LCM(a.d, b.d)
         IN  a.n * (l \div a.d) < b.n * (l \div b.d)

RSqr(a) == RMul(a, a)

\* A real [s, q] is s * sqrt(q).
Real(a) == [s |-> Sign(a.n), q |-> RSqr(a)]

SignedSqr(x) == IF x.s < 0 THEN RNeg(x.q) ELSE x.q

RealLess(x, y) == RLess(SignedSqr(x), SignedSqr(y))

RealNeg(x) == [s |-> -x.s, q |-> x.q]

RealMul(x, y) == [s |-> x.s * y.s, q |-> RMul(x.q, y.q)]

\* sqrt() of <math.h> on a non-negative rational.
Sqrt(a) == [s |-> Sign(a.n), q |-> a]

----------------------------------------------------------------------------
\* TThreeVectorReal: the base class of TFourVectorReal.

\* static LDouble_t TThreeVectorReal::fResolution, the relative tolerance.
\* The grid is coarse, so the tolerance is taken coarse with it: the band
\* -Resolution() < InvariantSqr() < 0 and the pairs of distinct vectors
\* that compare equal both exist on the grid.
fResolution == Rat(3, 4)

\* TThreeVectorReal::LengthSqr(): x^2 + y^2 + z^2.
LengthSqr(vec) == RAdd(RAdd(RSqr(vec[1]), RSqr(vec[2])), RSqr(vec[3]))

\* TFourVectorReal(t, x, y, z): fVector[0] = t, ..., fVector[3] = z.
Vec(t, x, y, z) ==
    [i \in 0..3 |-> CASE i = 0 -> t [] i = 1 -> x [] i = 2 -> y [] OTHER -> z]

Grid == {RInt(k) : k \in -MaxC..MaxC}

\* The vectors drawn as inputs.
GridVectors == {Vec(t, x, y, z) : t \in Grid, x \in Grid, y \in Grid, z \in Grid}

ZeroVector == Vec(RZero, RZero, RZero, RZero)

----------------------------------------------------------------------------
\* TFourVectorReal

\* t^2 + LengthSqr(), the square of the Euclidean magnitude.
ScaleSqr(vec) == RAdd(RSqr(vec[0]), LengthSqr(vec))

\* Faulty variant: the zero vector gets no fallback tolerance.
ResolutionNoFallback(vec) == RealMul(Real(fResolution), Sqrt(ScaleSqr(vec)))

\* Faulty variant: an absolute tolerance, whatever the magnitude.
ResolutionAbsolute(vec) == Real(fResolution)

\* Resolution()
Resolution(vec) ==
    LET scale == Sqrt(ScaleSqr(vec))
    IN  IF RealLess(Real(RZero), scale)
        THEN RealMul(Real(fResolution), scale)
        ELSE Real(fResolution)

IndexErr == "TFourVectorReal::operator[]: index out of range"

\* Faulty variant: an index above 3 is clamped to the last component.
OperatorIndexClamp(vec, index) ==
    IF index < 0
    THEN [ret |-> vec[0], err |-> IndexErr]
    ELSE IF index > 3
         THEN [ret |-> vec[3], err |-> IndexErr]
         ELSE [ret |-> vec[index], err |-> ""]

\* operator[]: the component referred to, and what Error() reports.
OperatorIndex(vec, index) ==
    IF index < 0 \/ index > 3
    THEN [ret |-> vec[0], err |-> IndexErr]
    ELSE [ret |-> vec[index], err |-> ""]

\* Faulty variant: the time components are not multiplied with each other.
ScalarProdTimeSquared(vec, vec2) ==
    RSub(RSub(RSub(RMul(vec[0], vec[0]), RMul(vec[1], vec2[1])),
              RMul(vec[2], vec2[2])),
         RMul(vec[3], vec2[3]))

\* TFourVectorReal::ScalarProd(const TFourVectorReal &other)
ScalarProd(vec, vec2) ==
    RSub(RSub(RSub(RMul(vec[0], vec2[0]), RMul(vec[1], vec2[1])),
              RMul(vec[2], vec2[2])),
         RMul(vec[3], vec2[3]))

\* Faulty variant: an assignment through an index out of range is dropped.
AssignIndexDropped(vec, index, x) ==
    IF index < 0 \/ index > 3
    THEN [vec |-> vec, err |-> IndexErr]
    ELSE [vec |-> [vec EXCEPT ![index] = x], err |-> ""]

\* v[index] = x: operator[] returns (LDouble_t &)fVector[0] for an index out
\* of range and (LDouble_t &)fVector[index] otherwise, and the assignment
\* writes x through that reference.
AssignIndex(vec, index, x) ==
    IF index < 0 \/ index > 3
    THEN [vec |-> [vec EXCEPT ![0] = x], err |-> IndexErr]
    ELSE [vec |-> [vec EXCEPT ![index] = x], err |-> ""]

\* InvariantSqr(), in the +--- metric
InvariantSqr(vec) == RSub(RSqr(vec[0]), LengthSqr(vec))

InvariantErr == "TFourVectorReal::Invariant(): invoked on a vector with negative norm"

\* Faulty variant: no tolerance below zero.
InvariantNoTolerance(vec) ==
    LET inv2 == InvariantSqr(vec)
    IN  IF RLess(RZero, inv2)
        THEN [ret |-> Sqrt(inv2), err |-> ""]
        ELSE IF inv2 = RZero
             THEN [ret |-> Real(RZero), err |-> ""]
             ELSE [ret |-> Real(RInt(-1)), err |-> InvariantErr]

\* Faulty variant: the tolerance below zero is fResolution itself.
InvariantAbsTolerance(vec) ==
    LET inv2 == InvariantSqr(vec)
    IN  IF RLess(RZero, inv2)
        THEN [ret |-> Sqrt(inv2), err |-> ""]
        ELSE IF RealLess(RealNeg(Real(fResolution)), Real(inv2))
             THEN [ret |-> Real(RZero), err |-> ""]
             ELSE [ret |-> Real(RInt(-1)), err |-> InvariantErr]

\* Faulty variant: the error is reported and 0 is returned.
InvariantErrZero(vec) ==
    LET inv2 == InvariantSqr(vec)
    IN  IF RLess(RZero, inv2)
        THEN [ret |-> Sqrt(inv2), err |-> ""]
        ELSE IF RealLess(RealNeg(Resolution(vec)), Real(inv2))
             THEN [ret |-> Real(RZero), err |-> ""]
             ELSE [ret |-> Real(RZero), err |-> InvariantErr]

\* Invariant(): the value returned, and what Error() reports.
Invariant(vec) ==
    LET inv2 == InvariantSqr(vec)
    IN  IF RLess(RZero, inv2)
        THEN [ret |-> Sqrt(inv2), err |-> ""]
        ELSE IF RealLess(RealNeg(Resolution(vec)), Real(inv2))
             THEN [ret |-> Real(RZero), err |-> ""]
             ELSE [ret |-> Real(RInt(-1)), err |-> InvariantErr]

\* Faulty variant: the time difference is left out.
DistanceToNoTime(vec, vec2) ==
    LET x == RSub(vec[1], vec2[1])
        y == RSub(vec[2], vec2[2])
        z == RSub(vec[3], vec2[3])
    IN  Sqrt(RAdd(RAdd(RSqr(x), RSqr(y)), RSqr(z)))

\* DistanceTo(const TFourVectorReal &vec2)
DistanceTo(vec, vec2) ==
    LET t == RSub(vec[0], vec2[0])
        x == RSub(vec[1], vec2[1])
        y == RSub(vec[2], vec2[2])
        z == RSub(vec[3], vec2[3])
    IN  Sqrt(RAdd(RAdd(RAdd(RSqr(t), RSqr(x)), RSqr(y)), RSqr(z)))

\* operator==
OperatorEq(vec, vec2) == RealLess(DistanceTo(vec, vec2), Resolution(vec))

\* operator!=
OperatorNe(vec, vec2) == ~OperatorEq(vec, vec2)

----------------------------------------------------------------------------
\* TLorentzTransform and TLorentzBoost

Identity == [i \in 0..3 |-> [j \in 0..3 |-> IF i = j THEN ROne ELSE RZero]]

\* The integer square root of a perfect square.
ISqrt(k) == CHOOSE r \in 0..k : r * r = k

\* sqrt() on a rational that is the square of a rational.
RSqrt(a) == Rat(ISqrt(a.n), ISqrt(a.d))

Vec3(x, y, z) == [i \in 1..3 |-> CASE i = 1 -> x [] i = 2 -> y [] OTHER -> z]

Neg3(b) == [i \in 1..3 |-> RNeg(b[i])]

Zero3 == Vec3(RZero, RZero, RZero)

\* The speeds along an axis for which gamma is rational.
Speeds == {Rat(3, 5), Rat(4, 5)}

Skew == Vec3(Rat(2, 5), Rat(2, 5), Rat(1, 5))

\* The velocities drawn as inputs, every one with |beta| < 1.
BetaSet ==
    {Zero3, Skew, Neg3(Skew)}
        \cup {Vec3(b, RZero, RZero) : b \in Speeds}
        \cup {Vec3(RNeg(b), RZero, RZero) : b \in Speeds}
        \cup {Vec3(RZero, b, RZero) : b \in Speeds}
        \cup {Vec3(RZero, RNeg(b), RZero) : b \in Speeds}
        \cup {Vec3(RZero, RZero, b) : b \in Speeds}
        \cup {Vec3(RZero, RZero, RNeg(b)) : b \in Speeds}

\* TLorentzBoost::SetBeta(const TThreeVectorReal &beta), the standard boost:
\* gamma in the time-time entry, -gamma*beta in the cross terms and
\* delta_ij + (gamma - 1) beta_i beta_j / beta^2 in the space block.
SetBeta(b) ==
    LET betaSqr == RAdd(RAdd(RSqr(b[1]), RSqr(b[2])), RSqr(b[3]))
        gamma == RDiv(ROne, RSqrt(RSub(ROne, betaSqr)))
    IN  IF betaSqr = RZero
        THEN Identity
        ELSE [i \in 0..3 |-> [j \in 0..3 |->
                IF i = 0 /\ j = 0 THEN gamma
                ELSE IF i = 0 THEN RNeg(RMul(gamma, b[j]))
                ELSE IF j = 0 THEN RNeg(RMul(gamma, b[i]))
                ELSE RAdd(IF i = j THEN ROne ELSE RZero,
                          RDiv(RMul(RSub(gamma, ROne), RMul(b[i], b[j])),
                               betaSqr))]]

\* Faulty variant: the sign of the cross terms is not undone.
BetaNoSign(m) == [i \in 1..3 |-> RDiv(m[0][i], m[0][0])]

\* TLorentzBoost::Beta()
Beta(m) == [i \in 1..3 |-> RDiv(RNeg(m[0][i]), m[0][0])]

\* Faulty variant: a diagonal entry of the space block is returned.
GammaSpace(m) == m[1][1]

\* TLorentzBoost::Gamma()
Gamma(m) == m[0][0]

RSum4(f) == RAdd(RAdd(RAdd(f[0], f[1]), f[2]), f[3])

\* TLorentzTransform::operator*(const TFourVectorReal &vec)
Apply(m, vec) == [i \in 0..3 |-> RSum4([j \in 0..3 |-> RMul(m[i][j], vec[j])])]

\* TLorentzTransform::operator*(const TLorentzTransform &xOp)
Times(m, m2) ==
    [i \in 0..3 |-> [j \in 0..3 |->
        RSum4([k \in 0..3 |-> RMul(m[i][k], m2[k][j])])]]

\* The determinant of the matrix left when row i and column j are struck out.
Minor(m, i, j) ==
    LET r == [k \in 0..2 |-> IF k < i THEN k ELSE k + 1]
        c == [k \in 0..2 |-> IF k < j THEN k ELSE k + 1]
        e(a, b) == m[r[a]][c[b]]
        t(a0, a1, a2) == RMul(RMul(e(0, a0), e(1, a1)), e(2, a2))
    IN  RSub(RAdd(RAdd(t(0, 1, 2), t(1, 2, 0)), t(2, 0, 1)),
             RAdd(RAdd(t(2, 1, 0), t(1, 0, 2)), t(0, 2, 1)))

Cofactor(m, i, j) ==
    IF (i + j) % 2 = 0 THEN Minor(m, i, j) ELSE RNeg(Minor(m, i, j))

Det(m) == RSum4([j \in 0..3 |-> RMul(m[0][j], Cofactor(m, 0, j))])

\* TLorentzTransform::Invert(), TLorentzBoost::Invert(): the matrix inverse.
Invert(m) == [i \in 0..3 |-> [j \in 0..3 |-> RDiv(Cofactor(m, j, i), Det(m))]]

\* TFourVectorReal::Boost(const TThreeVectorReal &beta)
Boost(vec, b) == Apply(SetBeta(b), vec)

----------------------------------------------------------------------------
\* The calls on one TFourVectorReal object.  The queries are const member
\* functions: a run constructs the vector, may boost it, and makes one query.

Indices == (0 - MaxIdx)..(3 + MaxIdx)

NoReal == Real(RZero)

\* No call has been made yet.
NoCall ==
    /\ idx = 0
    /\ other = ZeroVector
    /\ beta = Zero3
    /\ ret = NoReal
    /\ retBool = FALSE
    /\ err = ""

\* The run holds no TLorentzBoost object.
NoMatrix == <<>>

\* The run makes no TCrossSection call.
NoReaction ==
    /\ particles = <<>>
    /\ chain = <<>>
    /\ spinors = <<>>
    /\ invAmp = <<>>
    /\ ampSquared = <<>>
    /\ diffXsect = <<>>
    /\ log = <<>>
    /\ first = <<>>

\* TFourVectorReal(t, x, y, z)
Init ==
    /\ fVector \in GridVectors
    /\ made = fVector
    /\ op = "TFourVectorReal"
    /\ fMatrix = NoMatrix
    /\ prod = NoMatrix
    /\ NoCall
    /\ NoReaction

Ready == op \in {"TFourVectorReal", "Boost"}

CallBoost ==
    /\ op = "TFourVectorReal"
    /\ \E b \in BetaSet :
        /\ op' = "Boost"
        /\ beta' = b
        /\ fVector' = Boost(fVector, b)
        /\ UNCHANGED <<made, idx, other, ret, retBool, err, fMatrix, prod>>
        /\ UNCHANGED xsVars

CallResolution ==
    /\ Ready
    /\ op' = "Resolution"
    /\ ret' = Resolution(fVector)
    /\ UNCHANGED <<fVector, made, idx, other, beta, retBool, err, fMatrix, prod>>
    /\ UNCHANGED xsVars

CallIndex ==
    /\ Ready
    /\ \E index \in Indices :
        /\ op' = "operator[]"
        /\ idx' = index
        /\ ret' = Real(OperatorIndex(fVector, index).ret)
        /\ err' = OperatorIndex(fVector, index).err
        /\ UNCHANGED <<fVector, made, other, beta, retBool, fMatrix, prod>>
        /\ UNCHANGED xsVars

CallInvariant ==
    /\ Ready
    /\ op' = "Invariant"
    /\ ret' = Invariant(fVector).ret
    /\ err' = Invariant(fVector).err
    /\ UNCHANGED <<fVector, made, idx, other, beta, retBool, fMatrix, prod>>
    /\ UNCHANGED xsVars

CallEq ==
    /\ Ready
    /\ \E vec2 \in GridVectors :
        /\ op' = "operator=="
        /\ other' = vec2
        /\ retBool' = OperatorEq(fVector, vec2)
        /\ UNCHANGED <<fVector, made, idx, beta, ret, err, fMatrix, prod>>
        /\ UNCHANGED xsVars

CallNe ==
    /\ Ready
    /\ \E vec2 \in GridVectors :
        /\ op' = "operator!="
        /\ other' = vec2
        /\ retBool' = OperatorNe(fVector, vec2)
        /\ UNCHANGED <<fVector, made, idx, beta, ret, err, fMatrix, prod>>
        /\ UNCHANGED xsVars

\* v[index] = x
CallAssign ==
    /\ Ready
    /\ \E index \in Indices, x \in Grid :
        /\ op' = "operator[]="
        /\ idx' = index
        /\ ret' = Real(x)
        /\ fVector' = AssignIndex(fVector, index, x).vec
        /\ err' = AssignIndex(fVector, index, x).err
        /\ UNCHANGED <<made, other, beta, retBool, fMatrix, prod>>
        /\ UNCHANGED xsVars

Next ==
    \/ CallBoost
    \/ CallResolution
    \/ CallIndex
    \/ CallInvariant
    \/ CallAssign

Spec == Init /\ [][Next]_vars

\* vec.ScalarProd(vec2): no statement of it writes to an operand.
CallScalarProd ==
    /\ Ready
    /\ \E vec2 \in GridVectors :
        /\ op' = "ScalarProd"
        /\ other' = vec2
        /\ ret' = Real(ScalarProd(fVector, vec2))
        /\ UNCHANGED <<fVector, made, idx, beta, retBool, err, fMatrix, prod>>
        /\ UNCHANGED xsVars

NextEq ==
    \/ CallEq
    \/ CallNe
    \/ CallScalarProd

\* The comparisons of a vector with every grid vector.
SpecEq == Init /\ [][NextEq]_vars

----------------------------------------------------------------------------
\* The calls on one TLorentzBoost object.

\* TLorentzBoost(): the identity transform; the run uses no vector object.
InitBoost ==
    /\ fVector = ZeroVector
    /\ made = ZeroVector
    /\ op = "TLorentzBoost"
    /\ fMatrix = Identity
    /\ prod = Identity
    /\ NoCall
    /\ NoReaction

\* SetBeta(const TThreeVectorReal &beta)
CallSetBeta ==
    /\ op = "TLorentzBoost"
    /\ \E b \in BetaSet :
        /\ op' = "SetBeta"
        /\ beta' = b
        /\ fMatrix' = SetBeta(b)
        /\ UNCHANGED <<fVector, made, idx, other, ret, retBool, err, prod>>
        /\ UNCHANGED xsVars

\* Invert()
CallInvert ==
    /\ op = "SetBeta"
    /\ op' = "Invert"
    /\ fMatrix' = Invert(fMatrix)
    /\ UNCHANGED <<fVector, made, idx, other, beta, ret, retBool, err, prod>>
    /\ UNCHANGED xsVars

\* operator*(TLorentzBoost(b2)): this boost composed with the boost for b2
CallTimes ==
    /\ op = "SetBeta"
    /\ \E b2 \in BetaSet :
        /\ op' = "operator*"
        /\ prod' = Times(fMatrix, SetBeta(b2))
        /\ other' = [i \in 0..3 |-> IF i = 0 THEN RZero ELSE b2[i]]
        /\ UNCHANGED <<fVector, made, idx, beta, ret, retBool, err, fMatrix>>
        /\ UNCHANGED xsVars

\* Beta() on the boost as set
CallBeta ==
    /\ op = "SetBeta"
    /\ op' = "Beta"
    /\ other' = [i \in 0..3 |-> IF i = 0 THEN RZero ELSE Beta(fMatrix)[i]]
    /\ UNCHANGED <<fVector, made, idx, beta, ret, retBool, err, fMatrix, prod>>
    /\ UNCHANGED xsVars

\* Gamma() on the boost as set
CallGamma ==
    /\ op = "SetBeta"
    /\ op' = "Gamma"
    /\ ret' = Real(Gamma(fMatrix))
    /\ UNCHANGED <<fVector, made, idx, other, beta, retBool, err, fMatrix, prod>>
    /\ UNCHANGED xsVars

NextBoost ==
    \/ CallSetBeta
    \/ CallInvert
    \/ CallTimes
    \/ CallBeta
    \/ CallGamma

SpecBoost == InitBoost /\ [][NextBoost]_vars

----------------------------------------------------------------------------
\* The mutators of one TLorentzBoost object, called in any order.

\* TLorentzTransform::Null(): back to the transform of the constructor.
Null(m) == Identity

\* TLorentzTransform::Transpose()
Transpose(m) == [i \in 0..3 |-> [j \in 0..3 |-> m[j][i]]]

\* TUnitVector::Normalize(1): the vector scaled to unit length.
Normalize(v) ==
    LET length == RSqrt(RAdd(RAdd(RSqr(v[1]), RSqr(v[2])), RSqr(v[3])))
    IN  [i \in 1..3 |-> RDiv(v[i], length)]

\* SetGamma(const TUnitVector &bhat, gamma): the boost along bhat whose
\* speed is sqrt(1 - 1/gamma^2).
SetGammaAxis(bhat, gamma) ==
    LET speed == RSqrt(RSub(ROne, RDiv(ROne, RSqr(gamma))))
    IN  SetBeta([i \in 1..3 |-> RMul(speed, bhat[i])])

\* Faulty variant: only the time row of the matrix is rewritten.
SetGammaRowOnly(m, gamma) ==
    [m EXCEPT ![0] = SetGammaAxis(Normalize(Beta(m)), gamma)[0]]

\* Faulty variant: the boost is set along the x axis.
SetGammaAlongX(m, gamma) == SetGammaAxis(Vec3(ROne, RZero, RZero), gamma)

\* TLorentzBoost::SetGamma(gamma)
SetGamma(m, gamma) == SetGammaAxis(Normalize(Beta(m)), gamma)

\* The Lorentz factors drawn as inputs, each with a rational speed.
Gammas == {ROne, Rat(5, 4), Rat(5, 3)}

SeqSetBeta ==
    \E b \in BetaSet :
        /\ op' = "SetBeta"
        /\ beta' = b
        /\ fMatrix' = SetBeta(b)
        /\ UNCHANGED <<fVector, made, idx, other, ret, retBool, err, prod>>
        /\ UNCHANGED xsVars

\* SetGamma(gamma) on a boost that has a direction
SeqSetGamma ==
    /\ Beta(fMatrix) # Zero3
    /\ \E gamma \in Gammas :
        /\ op' = "SetGamma"
        /\ ret' = Real(gamma)
        /\ fMatrix' = SetGamma(fMatrix, gamma)
        /\ UNCHANGED <<fVector, made, idx, other, beta, retBool, err, prod>>
        /\ UNCHANGED xsVars

SeqNull ==
    /\ op' = "Null"
    /\ fMatrix' = Null(fMatrix)
    /\ UNCHANGED <<fVector, made, idx, other, beta, ret, retBool, err, prod>>
    /\ UNCHANGED xsVars

SeqTranspose ==
    /\ op' = "Transpose"
    /\ fMatrix' = Transpose(fMatrix)
    /\ UNCHANGED <<fVector, made, idx, other, beta, ret, retBool, err, prod>>
    /\ UNCHANGED xsVars

SeqInvert ==
    /\ op' = "Invert"
    /\ fMatrix' = Invert(fMatrix)
    /\ UNCHANGED <<fVector, made, idx, other, beta, ret, retBool, err, prod>>
    /\ UNCHANGED xsVars

\* operator=(source), the source being the boost for the velocity b
SeqAssign ==
    \E b \in BetaSet :
        /\ op' = "operator="
        /\ beta' = b
        /\ fMatrix' = SetBeta(b)
        /\ UNCHANGED <<fVector, made, idx, other, ret, retBool, err, prod>>
        /\ UNCHANGED xsVars

NextSeq ==
    \/ SeqSetBeta
    \/ SeqSetGamma
    \/ SeqNull
    \/ SeqTranspose
    \/ SeqInvert
    \/ SeqAssign

SpecSeq == InitBoost /\ [][NextSeq]_vars

----------------------------------------------------------------------------
\* The calls on TThreeRotation objects.

\* The unit axes drawn as inputs.
Axes ==
    {Vec3(ROne, RZero, RZero), Vec3(RZero, ROne, RZero),
     Vec3(RZero, RZero, ROne), Vec3(Rat(2, 3), Rat(2, 3), Rat(1, 3))}

\* The angles drawn as inputs, each given by its cosine and sine:
\* 0, 90, 180 and 270 degrees and the angles of the 3-4-5 triangle.
Angles ==
    <<[cos |-> ROne, sin |-> RZero],
      [cos |-> RZero, sin |-> ROne],
      [cos |-> RInt(0 - 1), sin |-> RZero],
      [cos |-> RZero, sin |-> RInt(0 - 1)],
      [cos |-> Rat(3, 5), sin |-> Rat(4, 5)],
      [cos |-> Rat(4, 5), sin |-> Rat(0 - 3, 5)]>>

\* The cross-product matrix of the axis: Cross(ahat)[i][j] v[j] = ahat x v.
Cross(ahat) ==
    [i \in 1..3 |-> [j \in 1..3 |->
        IF i = j THEN RZero
        ELSE IF (j - i) % 3 = 1 THEN RNeg(ahat[6 - i - j])
        ELSE ahat[6 - i - j]]]

\* TThreeRotation::SetAxis(const TUnitVector &ahat, angle): Rodrigues'
\* formula on the space block, the identity on the time component.
SetAxis(ahat, angle) ==
    [i \in 0..3 |-> [j \in 0..3 |->
        IF i = 0 \/ j = 0
        THEN IF i = j THEN ROne ELSE RZero
        ELSE RAdd(RAdd(IF i = j THEN angle.cos ELSE RZero,
                       RMul(angle.sin, Cross(ahat)[i][j])),
                  RMul(RSub(ROne, angle.cos), RMul(ahat[i], ahat[j])))]]

\* Faulty variant: the operands are multiplied in the other order.
TimesSwapped(m, m2) ==
    [i \in 0..3 |-> [j \in 0..3 |->
        RSum4([k \in 0..3 |-> RMul(m2[i][k], m[k][j])])]]

\* TThreeRotation::operator*(const TThreeRotation &rotOp)
RotTimes(m, m2) ==
    [i \in 0..3 |-> [j \in 0..3 |->
        RSum4([k \in 0..3 |-> RMul(m[i][k], m2[k][j])])]]

\* TThreeRotation::operator*(const TThreeVectorReal &vec)
RotApply(m, vec) ==
    [i \in 0..3 |-> RSum4([j \in 0..3 |-> RMul(m[i][j], vec[j])])]

\* The three-vectors drawn as inputs: the grid vectors of zero time.
GridThreeVectors == {v \in GridVectors : v[0] = RZero}

\* TThreeRotation()
InitRot ==
    /\ fVector = ZeroVector
    /\ made = ZeroVector
    /\ op = "TThreeRotation"
    /\ fMatrix = Identity
    /\ prod = Identity
    /\ NoCall
    /\ NoReaction

\* R1.SetAxis(ahat, angle)
CallSetAxis ==
    /\ op = "TThreeRotation"
    /\ \E ahat \in Axes, a \in DOMAIN Angles :
        /\ op' = "SetAxis"
        /\ fMatrix' = SetAxis(ahat, Angles[a])
        /\ UNCHANGED <<fVector, made, idx, other, beta, ret, retBool, err, prod>>
        /\ UNCHANGED xsVars

\* R2 * R1 for the rotation R2 by angle number idx about the axis beta
CallRotTimes ==
    /\ op = "SetAxis"
    /\ \E ahat \in Axes, a \in DOMAIN Angles :
        /\ op' = "operator*"
        /\ beta' = ahat
        /\ idx' = a
        /\ prod' = RotTimes(SetAxis(ahat, Angles[a]), fMatrix)
        /\ UNCHANGED <<fVector, made, other, ret, retBool, err, fMatrix>>
        /\ UNCHANGED xsVars

\* (R2 * R1) * vec into fVector, and R2 * (R1 * vec) into made
CallRotApply ==
    /\ op = "operator*"
    /\ \E vec \in GridThreeVectors :
        /\ op' = "operator*(vec)"
        /\ other' = vec
        /\ fVector' = RotApply(prod, vec)
        /\ made' = RotApply(SetAxis(beta, Angles[idx]), RotApply(fMatrix, vec))
        /\ UNCHANGED <<idx, beta, ret, retBool, err, fMatrix, prod>>
        /\ UNCHANGED xsVars

NextRot ==
    \/ CallSetAxis
    \/ CallRotTimes
    \/ CallRotApply

SpecRot == InitRot /\ [][NextRot]_vars

----------------------------------------------------------------------------
\* TCrossSection: LDouble_t and Complex_t values that may be infinite or NaN.

\* An LDouble_t is a rational [n, d] with d > 0, or has d = 0: n = 1 is
\* +infinity, n = -1 is -infinity and n = 0 is NaN.  Rounding and the sign
\* of zero are not modelled.
Inf == [n |-> 1, d |-> 0]

NaN == [n |-> 0, d |-> 0]

IsFinite(x) == x.d # 0

IsNaN(x) == x.d = 0 /\ x.n = 0

XNeg(x) == [n |-> 0 - x.n, d |-> x.d]

XAdd(x, y) ==
    IF x.d # 0 /\ y.d # 0 THEN RAdd(x, y)
    ELSE IF IsNaN(x) \/ IsNaN(y) THEN NaN
    ELSE IF x.d # 0 THEN y
    ELSE IF y.d # 0 THEN x
    ELSE IF x = y THEN x
    ELSE NaN

XSub(x, y) == XAdd(x, XNeg(y))

XMul(x, y) ==
    IF x.d # 0 /\ y.d # 0 THEN RMul(x, y)
    ELSE IF IsNaN(x) \/ IsNaN(y) \/ x.n = 0 \/ y.n = 0 THEN NaN
    ELSE [n |-> Sign(x.n) * Sign(y.n), d |-> 0]

\* Faulty variant: a zero divisor is caught and the quotient set to zero.
XDivChecked(x, y) ==
    IF x.d # 0 /\ y.d # 0
    THEN IF y.n = 0 THEN RZero ELSE RDiv(x, y)
    ELSE IF IsNaN(x) \/ IsNaN(y) \/ (x.d = 0 /\ y.d = 0) THEN NaN
    ELSE IF x.d = 0 THEN [n |-> IF y.n < 0 THEN 0 - x.n ELSE x.n, d |-> 0]
    ELSE RZero

\* Division as the floating-point unit does it: x/0 is an infinity for
\* x # 0 and NaN for x = 0, and nothing is reported.
XDiv(x, y) ==
    IF x.d # 0 /\ y.d # 0
    THEN IF y.n = 0 THEN [n |-> Sign(x.n), d |-> 0] ELSE RDiv(x, y)
    ELSE IF IsNaN(x) \/ IsNaN(y) \/ (x.d = 0 /\ y.d = 0) THEN NaN
    ELSE IF x.d = 0 THEN [n |-> IF y.n < 0 THEN 0 - x.n ELSE x.n, d |-> 0]
    ELSE RZero

\* x < y; a comparison with NaN is false.
XLess(x, y) ==
    IF x.d # 0 /\ y.d # 0 THEN RLess(x, y)
    ELSE IF IsNaN(x) \/ IsNaN(y) \/ x = y THEN FALSE
    ELSE IF x.d = 0 THEN x.n < 0
    ELSE y.n > 0

\* sqr(LDouble_t x)
sqr(x) == XMul(x, x)

RECURSIVE pow(_, _)
\* pow(x, k) for an integer k
pow(x, k) ==
    IF k = 0 THEN ROne
    ELSE IF k < 0 THEN XDiv(ROne, pow(x, 0 - k))
    ELSE XMul(pow(x, k - 1), x)

\* Complex_t(re, im)
Complex(re, im) == [re |-> re, im |-> im]

CZero == Complex(RZero, RZero)

COne == Complex(ROne, RZero)

\* The Gaussian integer a + b i
CInt(a, b) == Complex(RInt(a), RInt(b))

CAdd(z, w) ==
    IF z.re.d = 1 /\ z.im.d = 1 /\ w.re.d = 1 /\ w.im.d = 1
    THEN CInt(z.re.n + w.re.n, z.im.n + w.im.n)
    ELSE Complex(XAdd(z.re, w.re), XAdd(z.im, w.im))

\* Both parts of z are finite.
CFinite(z) == z.re.d # 0 /\ z.im.d # 0

\* z * w by the component formula (ac - bd) + (ad + bc) i.  A finite z
\* times one is z by that formula, and is returned at once.
CMul(z, w) ==
    IF w = COne /\ CFinite(z)
    THEN z
    ELSE IF z.re.d = 1 /\ z.im.d = 1 /\ w.re.d = 1 /\ w.im.d = 1
    THEN CInt(z.re.n * w.re.n - z.im.n * w.im.n,
              z.re.n * w.im.n + z.im.n * w.re.n)
    ELSE Complex(XSub(XMul(z.re, w.re), XMul(z.im, w.im)),
                 XAdd(XMul(z.re, w.im), XMul(z.im, w.re)))

\* Faulty variant: the conjugation is left out.
ConjNone(z) == z

\* std::conj
Conj(z) == Complex(z.re, XNeg(z.im))

\* Complex_t / LDouble_t, part by part
CDivReal(z, x) == Complex(XDiv(z.re, x), XDiv(z.im, x))

\* Complex_t * LDouble_t, part by part
CMulReal(z, x) == Complex(XMul(z.re, x), XMul(z.im, x))

RECURSIVE CProdTo(_, _)
CProdTo(s, n) == IF n = 1 THEN s[1] ELSE CMul(CProdTo(s, n - 1), s[n])

\* The product of the factors of s, taken from the left.  With finite
\* factors one of which is zero, every partial product from that factor on
\* is zero, and zero is returned at once.
CProd(s) ==
    IF (\E i \in 1..Len(s) : s[i] = CZero) /\ (\A i \in 1..Len(s) : CFinite(s[i]))
    THEN CZero
    ELSE CProdTo(s, Len(s))

RECURSIVE CSum(_, _, _)
\* f[lo] + ... + f[hi]
CSum(f, lo, hi) ==
    IF lo = hi THEN f[lo]
    ELSE LET mid == (lo + hi) \div 2
         IN  CAdd(CSum(f, lo, mid), CSum(f, mid + 1, hi))

RECURSIVE Pow2(_)
Pow2(j) == IF j = 0 THEN 1 ELSE 2 * Pow2(j - 1)

\* Bit j of k: the value of loop index number j in the combination k.
Bit(k, j) == (k \div Pow2(j)) % 2

----------------------------------------------------------------------------
\* TCrossSection: the particles and the constants.

\* #define DEBUGGING 1
DEBUGGING == 1

\* The 1e8L of the debugging checks.
NoiseRatio == 100000000

\* Faulty variant: a value that is not the same in every call.
PI_Drifting == IF first = <<>> THEN RInt(3) ELSE RInt(4)

\* const LDouble_t PI_ = 2*atan2(1.,0.), by a rational stand-in.
PI_ == RInt(3)

\* The coupling and the unit conversion, process-wide and positive; small
\* stand-ins for the values of the header.
alphaQED == Rat(1, 2)

hbarcSqr == RInt(3)

\* A two-by-two spin-density matrix with the rows (a, b) and (c, d).
Matrix2(a, b, c, d) ==
    [h \in 0..1 |-> [k \in 0..1 |->
        IF h = 0 THEN (IF k = 0 THEN a ELSE b) ELSE (IF k = 0 THEN c ELSE d)]]

Unpolarized == Matrix2(COne, CZero, CZero, COne)

\* The pure state k: a single 1 at [k][k].
PureState(k) ==
    [h \in 0..1 |-> [j \in 0..1 |-> IF h = k /\ j = k THEN COne ELSE CZero]]

\* The spin-density matrices drawn as inputs that are Hermitian and
\* positive semidefinite.
PhysicalSDMs ==
    {Unpolarized, PureState(0), PureState(1),
     Matrix2(COne, COne, COne, COne),
     Matrix2(COne, CInt(0, 0 - 1), CInt(0, 1), COne),
     Matrix2(CInt(2, 0), CInt(1, 1), CInt(1, 0 - 1), COne)}

\* Matrices a caller can also set: one with a negative eigenvalue and one
\* that is not Hermitian.
UnphysicalSDMs ==
    {Matrix2(CInt(0 - 1, 0), CZero, CZero, CZero),
     Matrix2(COne, CInt(0, 1), CInt(0, 1), COne)}

SDMSet == PhysicalSDMs \cup UnphysicalSDMs

\* A TPhoton or TLepton object: what Mom(), Mass() and SDM() return.
Particle(type, mom, mass, sdm) ==
    [type |-> type, Mom |-> mom, Mass |-> mass, SDM |-> sdm]

\* Faulty variant: the copy starts unpolarized.
CopyNoSDM(another) ==
    Particle(another.type, another.Mom, another.Mass, Unpolarized)

\* TPhoton(const TPhoton &), TLepton(const TLepton &): the local copy.
Copy(another) ==
    Particle(another.type, another.Mom, another.Mass, another.SDM)

\* TFourVectorReal operator+ and operator-
VecAdd(vec, vec2) == [i \in 0..3 |-> RAdd(vec[i], vec2[i])]

VecSub(vec, vec2) == [i \in 0..3 |-> RSub(vec[i], vec2[i])]

\* TThreeVectorReal::Length()
Length(vec) == RSqrt(LengthSqr(vec))

\* The five reaction functions, the types of their arguments and the number
\* of helicity and polarization indices of their amplitudes.
Reactions ==
    {"Compton", "Bremsstrahlung", "PairProduction", "TripletProduction",
     "eeBremsstrahlung"}

Signature ==
    [Compton |-> <<"TPhoton", "TLepton", "TPhoton", "TLepton">>,
     Bremsstrahlung |-> <<"TLepton", "TLepton", "TPhoton">>,
     PairProduction |-> <<"TPhoton", "TLepton", "TLepton">>,
     TripletProduction |->
        <<"TPhoton", "TLepton", "TLepton", "TLepton", "TLepton">>,
     eeBremsstrahlung |->
        <<"TLepton", "TLepton", "TLepton", "TLepton", "TPhoton">>]

\* if (real(ampSquared) < 0 ||
\*     fabs(ampSquared.imag()) > fabs(ampSquared / 1e8L)).
\* |im| > |z|/1e8 is |re| < sqrt(1e16 - 1) |im|, which for a ratio of
\* denominator below 2e8 is |re| < 1e8 |im|; it is false when a part of z
\* is infinite or NaN.
BadAmplitude(z) ==
    \/ XLess(z.re, RZero)
    \/ /\ IsFinite(z.re)
       /\ IsFinite(z.im)
       /\ z.im.n # 0
       /\ (Abs(z.re.n) * z.im.d) \div NoiseRatio < Abs(z.im.n) * z.re.d

\* Faulty variant: the imaginary part is not looked at.
WarningRealOnly(name, z) ==
    IF DEBUGGING # 0 /\ XLess(z.re, RZero)
    THEN <<"Warning: bad " \o name \o " amplitudes">>
    ELSE <<>>

\* #if DEBUGGING ... std::cout << "Warning: bad ... amplitudes" ... #endif
Warning(name, z) ==
    IF DEBUGGING # 0 /\ BadAmplitude(z)
    THEN <<"Warning: bad " \o name \o " amplitudes">>
    ELSE <<>>

----------------------------------------------------------------------------
\* TCrossSection: the reaction functions.  TDiracSpinor and TDiracMatrix are
\* outside the model.  In Compton, Bremsstrahlung and PairProduction ch[n] is
\* the value of spinor chain number n of the amplitude with the propagator
\* denominator taken out, for each combination of the helicity and
\* polarization indices.  In TripletProduction and eeBremsstrahlung, which
\* sum products of two chains over a Lorentz index, the value of a chain is
\* drawn for the spinors and the matrix product it is made of.

\* TDiracSpinor::SetStateU(p, helicity) and SetStateV(p, helicity): the
\* spinor is known by the solution, the momentum and the helicity it was
\* set to.
SetStateU(p, helicity) == [solution |-> "U", Mom |-> p, helicity |-> helicity]

SetStateV(p, helicity) == [solution |-> "V", Mom |-> p, helicity |-> helicity]

\* TDiracSpinor u[2]; u[0].SetState(mom, +0.5); u[1].SetState(mom, -0.5);
SpinorArray(SetState(_, _), mom) ==
    [h \in 0..1 |-> SetState(mom, IF h = 0 THEN Rat(1, 2) ELSE Rat(-1, 2))]

\* Faulty variant: the antileptons get the particle solution too.
SpinorsAllU(r, p) ==
    [i \in {j \in DOMAIN p : p[j].type = "TLepton"} |->
        SpinorArray(SetStateU, p[i].Mom)]

\* The spinor arrays a reaction function builds, by the position of the
\* lepton in the argument list: vF of PairProduction and v1 of
\* TripletProduction are the third argument.
Spinors(r, p) ==
    [i \in {j \in DOMAIN p : p[j].type = "TLepton"} |->
        IF r \in {"PairProduction", "TripletProduction"} /\ i = 3
        THEN SpinorArray(SetStateV, p[i].Mom)
        ELSE SpinorArray(SetStateU, p[i].Mom)]

\* for (Int_t h=0; h < 2; h++) sum += F(h)
Sum2(F(_)) == CAdd(F(0), F(1))

Two == RInt(2)

Four == RInt(4)

\* Compton: invAmp[hi][hf][gi][gf] from the two propagators.
ComptonAmp(gI, eI, gF, eF, ch) ==
    LET edenom1 == XMul(Two, ScalarProd(eI.Mom, gI.Mom))
        edenom2 == XMul(RNeg(Two), ScalarProd(eI.Mom, gF.Mom))
    IN  [hi \in 0..1, hf \in 0..1, gi \in 0..1, gf \in 0..1 |->
            CAdd(CDivReal(ch[1][hi, hf, gi, gf], edenom1),
                 CDivReal(ch[2][hi, hf, gi, gf], edenom2))]

\* Compton: the sum over spins.
ComptonSum(table, gI, eI, gF, eF) ==
    Sum2(LAMBDA gi : Sum2(LAMBDA gibar :
    Sum2(LAMBDA hi : Sum2(LAMBDA hibar :
    Sum2(LAMBDA hf : Sum2(LAMBDA hfbar :
    Sum2(LAMBDA gf : Sum2(LAMBDA gfbar :
        CProd(<<table[hi, hf, gi, gf],
                Conj(table[hibar, hfbar, gibar, gfbar]),
                eI.SDM[hi][hibar],
                eF.SDM[hfbar][hf],
                gI.SDM[gi][gibar],
                gF.SDM[gfbar][gf]>>)))))))))

\* The unpolarized Klein Nishina formula that follows return diffXsect:
\*   sinSqrTheta = 1 - sqr(gF->Mom()[3]/gF->Mom()[0]);
\*   KleinNishinaResult = sqr(alphaQED/mLepton)/2;
\*   KleinNishinaResult *= sqr(gF->Mom()[0]/gI->Mom()[0]);
\*   KleinNishinaResult *= (gF->Mom()[0]/gI->Mom()[0]) +
\*                         (gI->Mom()[0]/gF->Mom()[0]) - sinSqrTheta;
\*   KleinNishinaResult *= hbarcSqr;
KleinNishinaResult(gI, eI, gF) ==
    LET mLepton == eI.Mass
        sinSqrTheta == XSub(ROne, sqr(XDiv(gF.Mom[3], gF.Mom[0])))
        ratio == XDiv(gF.Mom[0], gI.Mom[0])
    IN  XMul(XMul(XMul(XDiv(sqr(XDiv(alphaQED, mLepton)), Two), sqr(ratio)),
                  XSub(XAdd(ratio, XDiv(gI.Mom[0], gF.Mom[0])), sinSqrTheta)),
             hbarcSqr)

\* Faulty variant: control runs past return diffXsect and the closed form is
\* what the function returns.
ComptonLocalFallsThrough(gI, eI, gF, eF, table) ==
    [ampSquared |-> ComptonSum(table, gI, eI, gF, eF),
     diffXsect |-> KleinNishinaResult(gI, eI, gF),
     log |-> <<>>]

\* Faulty variant: the factor 4 that absorbs the two powers of 4 pi is left
\* out of kinFactor.
ComptonLocalNoFour(gI, eI, gF, eF, table) ==
    LET ampSq == ComptonSum(table, gI, eI, gF, eF)
        fluxIn == XMul(XMul(Four, gI.Mom[0]), XAdd(Length(eI.Mom), eI.Mom[0]))
        rhoFin == XDiv(XDiv(sqr(gF.Mom[0]), ScalarProd(eF.Mom, gF.Mom)), Four)
        kinFactor == XDiv(rhoFin, fluxIn)
    IN  [ampSquared |-> ampSq,
         diffXsect |->
            XMul(XMul(XMul(hbarcSqr, sqr(alphaQED)), ampSq.re), kinFactor),
         log |-> <<>>]

\* Compton on the local copies: no debugging check in this function.
ComptonLocal(gI, eI, gF, eF, table) ==
    LET ampSq == ComptonSum(table, gI, eI, gF, eF)
        fluxIn == XMul(XMul(Four, gI.Mom[0]), XAdd(Length(eI.Mom), eI.Mom[0]))
        rhoFin == XDiv(XDiv(sqr(gF.Mom[0]), ScalarProd(eF.Mom, gF.Mom)), Four)
        kinFactor == XDiv(XMul(Four, rhoFin), fluxIn)
    IN  [ampSquared |-> ampSq,
         diffXsect |->
            XMul(XMul(XMul(hbarcSqr, sqr(alphaQED)), ampSq.re), kinFactor),
         log |-> <<>>]

\* TCrossSection::Compton(gIn, eIn, gOut, eOut)
Compton(gIn, eIn, gOut, eOut, table) ==
    ComptonLocal(Copy(gIn), Copy(eIn), Copy(gOut), Copy(eOut), table)

\* Bremsstrahlung: invAmp[hi][hf][gf]
BremsstrahlungAmp(eI, eF, gF, ch) ==
    LET qRecoil == VecSub(VecSub(eI.Mom, eF.Mom), gF.Mom)
        edenom1 == XSub(InvariantSqr(qRecoil),
                        XMul(Two, ScalarProd(qRecoil, eI.Mom)))
        edenom2 == XAdd(InvariantSqr(qRecoil),
                        XMul(Two, ScalarProd(qRecoil, eF.Mom)))
    IN  [hi \in 0..1, hf \in 0..1, gf \in 0..1 |->
            CAdd(CDivReal(ch[1][hi, hf, gf], edenom1),
                 CDivReal(ch[2][hi, hf, gf], edenom2))]

\* Faulty variant: the outgoing electron is contracted like an incoming one.
BremsstrahlungSumDirect(table, eI, eF, gF) ==
    Sum2(LAMBDA gf : Sum2(LAMBDA gfbar :
    Sum2(LAMBDA hi : Sum2(LAMBDA hibar :
    Sum2(LAMBDA hf : Sum2(LAMBDA hfbar :
        CProd(<<table[hi, hf, gf],
                Conj(table[hibar, hfbar, gfbar]),
                eI.SDM[hi][hibar],
                eF.SDM[hf][hfbar],
                gF.SDM[gfbar][gf]>>)))))))

\* Bremsstrahlung: the sum over spins.
BremsstrahlungSum(table, eI, eF, gF) ==
    Sum2(LAMBDA gf : Sum2(LAMBDA gfbar :
    Sum2(LAMBDA hi : Sum2(LAMBDA hibar :
    Sum2(LAMBDA hf : Sum2(LAMBDA hfbar :
        CProd(<<table[hi, hf, gf],
                Conj(table[hibar, hfbar, gfbar]),
                eI.SDM[hi][hibar],
                eF.SDM[hfbar][hf],
                gF.SDM[gfbar][gf]>>)))))))

\* Faulty variant: the imaginary part of ampSquared is added to the real
\* part before the factors are applied.
BremsstrahlungLocalWithImag(eI, eF, gF, table) ==
    LET ampSq == BremsstrahlungSum(table, eI, eF, gF)
        qRecoil == VecSub(VecSub(eI.Mom, eF.Mom), gF.Mom)
        kinFactor == XDiv(ROne, sqr(XMul(XMul(Two, PI_), eI.Mom[0])))
    IN  [ampSquared |-> ampSq,
         diffXsect |->
            XDiv(XMul(XMul(XMul(hbarcSqr, pow(alphaQED, 3)),
                           XAdd(ampSq.re, ampSq.im)),
                      kinFactor),
                 sqr(InvariantSqr(qRecoil))),
         log |-> Warning("Bremsstrahlung", ampSq)]

\* Bremsstrahlung on the local copies.
BremsstrahlungLocal(eI, eF, gF, table) ==
    LET ampSq == BremsstrahlungSum(table, eI, eF, gF)
        qRecoil == VecSub(VecSub(eI.Mom, eF.Mom), gF.Mom)
        kinFactor == XDiv(ROne, sqr(XMul(XMul(Two, PI_), eI.Mom[0])))
    IN  [ampSquared |-> ampSq,
         diffXsect |->
            XDiv(XMul(XMul(XMul(hbarcSqr, pow(alphaQED, 3)), ampSq.re),
                      kinFactor),
                 sqr(InvariantSqr(qRecoil))),
         log |-> Warning("Bremsstrahlung", ampSq)]

\* TCrossSection::Bremsstrahlung(eIn, eOut, gOut)
Bremsstrahlung(eIn, eOut, gOut, table) ==
    BremsstrahlungLocal(Copy(eIn), Copy(eOut), Copy(gOut), table)

\* PairProduction: invAmp[hi][hf][gi], hi being the helicity of pOut
PairProductionAmp(gI, eF, pF, ch) ==
    LET edenom1 == XMul(RNeg(Two), ScalarProd(gI.Mom, eF.Mom))
        edenom2 == XMul(RNeg(Two), ScalarProd(gI.Mom, pF.Mom))
    IN  [hi \in 0..1, hf \in 0..1, gi \in 0..1 |->
            CAdd(CDivReal(ch[1][hi, hf, gi], edenom1),
                 CDivReal(ch[2][hi, hf, gi], edenom2))]

\* Faulty variant: the outgoing electron is summed over without its
\* spin-density matrix.
PairProductionSumInclusive(table, gI, eF, pF) ==
    Sum2(LAMBDA gi : Sum2(LAMBDA gibar :
    Sum2(LAMBDA hi : Sum2(LAMBDA hibar :
    Sum2(LAMBDA hf :
        CProd(<<table[hi, hf, gi],
                Conj(table[hibar, hf, gibar]),
                pF.SDM[hi][hibar],
                gI.SDM[gi][gibar]>>))))))

\* PairProduction: the sum over spins.
PairProductionSum(table, gI, eF, pF) ==
    Sum2(LAMBDA gi : Sum2(LAMBDA gibar :
    Sum2(LAMBDA hi : Sum2(LAMBDA hibar :
    Sum2(LAMBDA hf : Sum2(LAMBDA hfbar :
        CProd(<<table[hi, hf, gi],
                Conj(table[hibar, hfbar, gibar]),
                pF.SDM[hi][hibar],
                eF.SDM[hfbar][hf],
                gI.SDM[gi][gibar]>>)))))))

PairProductionLocal(gI, eF, pF, table) ==
    LET ampSq == PairProductionSum(table, gI, eF, pF)
        qRecoil == VecSub(VecSub(gI.Mom, eF.Mom), pF.Mom)
        kinFactor == XDiv(ROne, sqr(XMul(XMul(Two, PI_), gI.Mom[0])))
    IN  [ampSquared |-> ampSq,
         diffXsect |->
            XDiv(XMul(XMul(XMul(hbarcSqr, pow(alphaQED, 3)), ampSq.re),
                      kinFactor),
                 sqr(InvariantSqr(qRecoil))),
         log |-> Warning("PairProduction", ampSq)]

\* TCrossSection::PairProduction(gIn, eOut, pOut)
PairProduction(gIn, eOut, pOut, table) ==
    PairProductionLocal(Copy(gIn), Copy(eOut), Copy(pOut), table)

\* Faulty variant: every term of the sum over mu is added with the sign of
\* mu = 0.
MetricSignAllPlus(mu) == ROne

\* ((mu == 0)? +1.L : -1.L)
MetricSign(mu) == IF mu = 0 THEN ROne ELSE RNeg(ROne)

\* A product of Dirac matrices, known by its factors: the forms are
\* gamma[mu], gamma[mu] * (Slash(q) + m) * eps, eps * (Slash(q) + m) *
\* gamma[mu] and (Slash(q) + m) * eps, where eps is Slash of the
\* polarization vector number j of the photon.  A form without mu or q has
\* mu = 0 or q = ZeroVector.
DiracProduct(form, mu, q, j) == [form |-> form, mu |-> mu, q |-> q, eps |-> j]

\* A number for each four-vector with integer components in -5..5.
VecCode(v) ==
    ((v[0].n + 5) % 11) + 11 * ((v[1].n + 5) % 11)
        + 121 * ((v[2].n + 5) % 11) + 1331 * ((v[3].n + 5) % 11)

SpinorCode(u) ==
    (IF u.solution = "V" THEN 1 ELSE 0) + (IF u.helicity.n < 0 THEN 2 ELSE 0)
        + 4 * VecCode(u.Mom)

ProductCode(D) ==
    (CASE D.form = "gamma" -> 0
       [] D.form = "gamma*eprop*eps" -> 1
       [] D.form = "eps*eprop*gamma" -> 2
       [] OTHER -> 3)
        + 4 * D.mu + 16 * D.eps + 32 * VecCode(D.q)

\* bra.ScalarProd(D * ket) for one product D of Dirac matrices: a Gaussian
\* integer with parts in -1..1, often zero, drawn as input, the same
\* whenever the bra, the product and the ket are the same, varying with the
\* seed.
ChainValue(seed, bra, D, ket) ==
    LET a == SpinorCode(bra) % 1009
        b == ProductCode(D) % 1013
        c == SpinorCode(ket) % 1019
        k == (a + 1) * (2 * b + 3) + 5 * (b + 2) * (c + 1) + seed * (a + 7 * c + 1)
        part(x) == IF x = 0 THEN 1 ELSE IF x = 1 THEN -1 ELSE 0
    IN  CInt(part(k % 5), part((k \div 5) % 7))

\* An electron propagator (Slash(q) + mLepton) / edenom.
Propagator(q, edenom) == [q |-> q, edenom |-> edenom]

\* One pair of diagrams: (a/da + b/db) * gprop
DiagramPair(a, da, b, db, gprop) ==
    CMulReal(CAdd(CDivReal(a, da), CDivReal(b, db)), gprop)

\* bra.ScalarProd(X * ket) for
\* X = gamma[mu] * eprop1 * eps + eps * eprop2 * gamma[mu]; X *= gprop;
ChainPair(seed, bra, mu, eprop1, eprop2, j, gprop, ket) ==
    DiagramPair(
        ChainValue(seed, bra, DiracProduct("gamma*eprop*eps", mu, eprop1.q, j),
                   ket),
        eprop1.edenom,
        ChainValue(seed, bra, DiracProduct("eps*eprop*gamma", mu, eprop2.q, j),
                   ket),
        eprop2.edenom,
        gprop)

\* bra.ScalarProd(gamma[mu] * ket)
Vertex(seed, bra, mu, ket) ==
    ChainValue(seed, bra, DiracProduct("gamma", mu, ZeroVector, 0), ket)

\* for (Int_t mu=0; mu < 4; mu++) invAmp[...] += Complex_t(sign * F(mu))
SumMu(F(_)) ==
    LET add(z, mu) == CAdd(z, CMulReal(F(mu), MetricSign(mu)))
    IN  add(add(add(add(CZero, 0), 1), 2), 3)

\* TripletProduction: what one pass of the loop over mu adds to
\* invAmp[h0][h1][h2][h3][gi] before the sign, h = <<h0, h1, h2, h3, gi>>,
\* from the pairs of diagrams CD2, CD3, BH2 and BH3.  ch[1] is the seed of
\* the spinor products.  The short chains hold gamma[mu] and the long ones
\* gamma[nu]; the loop has nu = mu.
TripletProductionTerm(g0, e0, e1, e2, e3, ch, mu, nu, h) ==
    LET edenomCD2a == XMul(Two, ScalarProd(g0.Mom, e0.Mom))
        edenomCD2b == XMul(RNeg(Two), ScalarProd(g0.Mom, e2.Mom))
        edenomBH2a == XMul(RNeg(Two), ScalarProd(g0.Mom, e1.Mom))
        edenomBH2b == XMul(RNeg(Two), ScalarProd(g0.Mom, e3.Mom))
        epropCD2a == Propagator(VecAdd(g0.Mom, e0.Mom), edenomCD2a)
        epropCD2b == Propagator(VecSub(e2.Mom, g0.Mom), edenomCD2b)
        epropBH2a == Propagator(VecSub(g0.Mom, e1.Mom), edenomBH2a)
        epropBH2b == Propagator(VecSub(e3.Mom, g0.Mom), edenomBH2b)
        epropCD3a == epropCD2a
        epropCD3b == epropBH2b
        epropBH3a == epropBH2a
        epropBH3b == epropCD2b
        gpropCD2 == XDiv(ROne, InvariantSqr(VecAdd(e1.Mom, e3.Mom)))
        gpropBH2 == XDiv(ROne, InvariantSqr(VecSub(e0.Mom, e2.Mom)))
        gpropCD3 == XDiv(ROne, InvariantSqr(VecAdd(e1.Mom, e2.Mom)))
        gpropBH3 == XDiv(ROne, InvariantSqr(VecSub(e0.Mom, e3.Mom)))
        u == Spinors("TripletProduction", <<g0, e0, e1, e2, e3>>)
        u0 == u[2][h[1]]
        v1 == u[3][h[2]]
        u2 == u[4][h[3]]
        u3 == u[5][h[4]]
        epsI == h[5] + 1
        CD2(bra, ket) == ChainPair(ch[1], bra, nu, epropCD2a, epropCD2b, epsI,
                                   gpropCD2, ket)
        BH2(bra, ket) == ChainPair(ch[1], bra, nu, epropBH2a, epropBH2b, epsI,
                                   gpropBH2, ket)
        CD3(bra, ket) == ChainPair(ch[1], bra, nu, epropCD3a, epropCD3b, epsI,
                                   gpropCD3, ket)
        BH3(bra, ket) == ChainPair(ch[1], bra, nu, epropBH3a, epropBH3b, epsI,
                                   gpropBH3, ket)
        neg(z) == CMulReal(z, RNeg(ROne))
    IN  CAdd(CAdd(CAdd(
            CMul(Vertex(ch[1], u3, mu, v1), CD2(u2, u0)),
            neg(CMul(Vertex(ch[1], u2, mu, v1), CD3(u3, u0)))),
            CMul(Vertex(ch[1], u2, mu, u0), BH2(u3, v1))),
            neg(CMul(Vertex(ch[1], u3, mu, u0), BH3(u2, v1))))

\* TripletProduction: invAmp[h0][h1][h2][h3][gi]
TripletProductionAmp(g0, e0, e1, e2, e3, ch) ==
    [h0 \in 0..1, h1 \in 0..1, h2 \in 0..1, h3 \in 0..1, gi \in 0..1 |->
        SumMu(LAMBDA mu :
            TripletProductionTerm(g0, e0, e1, e2, e3, ch, mu, mu,
                                  <<h0, h1, h2, h3, gi>>))]

TripletProductionSum(table, g0, e0, e1, e2, e3) ==
    Sum2(LAMBDA gi : Sum2(LAMBDA gibar :
    Sum2(LAMBDA h0 : Sum2(LAMBDA h0bar :
    Sum2(LAMBDA h1 : Sum2(LAMBDA h1bar :
    Sum2(LAMBDA h2 : Sum2(LAMBDA h2bar :
    Sum2(LAMBDA h3 : Sum2(LAMBDA h3bar :
        CProd(<<table[h0, h1, h2, h3, gi],
                Conj(table[h0bar, h1bar, h2bar, h3bar, gibar]),
                e0.SDM[h0][h0bar],
                e1.SDM[h1][h1bar],
                e2.SDM[h2bar][h2],
                e3.SDM[h3bar][h3],
                g0.SDM[gi][gibar]>>)))))))))))

TripletProductionLocal(g0, e0, e1, e2, e3, table) ==
    LET ampSq == TripletProductionSum(table, g0, e0, e1, e2, e3)
        fluxFactor == XMul(XMul(Four, g0.Mom[0]),
                           XAdd(Length(e0.Mom), e0.Mom[0]))
        rhoFactor == XDiv(ROne, XMul(XMul(RInt(8), e3.Mom[0]),
                                     Length(VecAdd(e1.Mom, e2.Mom))))
        piFactor == XMul(pow(XMul(Two, PI_), 4 - 9), pow(XMul(Four, PI_), 3))
    IN  [ampSquared |-> ampSq,
         diffXsect |->
            XMul(XMul(XDiv(XMul(XMul(hbarcSqr, pow(alphaQED, 3)), ampSq.re),
                           fluxFactor),
                      rhoFactor),
                 piFactor),
         log |-> Warning("triplets", ampSq)]

\* TCrossSection::TripletProduction(gIn, eIn, pOut, eOut2, eOut3)
TripletProduction(gIn, eIn, pOut, eOut2, eOut3, table) ==
    TripletProductionLocal(Copy(gIn), Copy(eIn), Copy(pOut), Copy(eOut2),
                           Copy(eOut3), table)

\* One group of diagrams whose first term has no propagator:
\* (c + a/da + b/db) * gprop
DiagramSum(c, a, da, b, db, gprop) ==
    CMulReal(CAdd(CAdd(c, CDivReal(a, da)), CDivReal(b, db)), gprop)

\* bra.ScalarProd(X * ket) for
\* X = gamma[mu] + eprop1 * eps + eps * eprop2 * gamma[mu]; X *= gprop;
ChainSum(seed, bra, mu, eprop1, eprop2, j, gprop, ket) ==
    DiagramSum(
        Vertex(seed, bra, mu, ket),
        ChainValue(seed, bra, DiracProduct("eprop*eps", 0, eprop1.q, j), ket),
        eprop1.edenom,
        ChainValue(seed, bra, DiracProduct("eps*eprop*gamma", mu, eprop2.q, j),
                   ket),
        eprop2.edenom,
        gprop)

\* eeBremsstrahlung: what one pass of the loop over mu adds to
\* invAmp[h0][h1][h2][h3][gf] before the sign, h = <<h0, h1, h2, h3, gf>>,
\* from the diagrams A, B, C and D.  ch[1] is the seed of the spinor
\* products.  The short chains hold gamma[mu] and the long ones gamma[nu];
\* the loop has nu = mu.  A is a sum of two products of three matrices;
\* B, C and D are X, which the code writes
\* gamma[mu] + eprop * epsF + epsF * eprop * gamma[mu].
eeBremsstrahlungTerm(e0, e1, e2, e3, g0, ch, mu, nu, h,
                     X(_, _, _, _, _, _, _, _)) ==
    LET edenomA1 == XMul(RNeg(Two), ScalarProd(g0.Mom, e0.Mom))
        edenomA2 == XMul(Two, ScalarProd(g0.Mom, e2.Mom))
        edenomB1 == XMul(RNeg(Two), ScalarProd(g0.Mom, e1.Mom))
        edenomB2 == XMul(Two, ScalarProd(g0.Mom, e3.Mom))
        epropA1 == Propagator(VecSub(e0.Mom, g0.Mom), edenomA1)
        epropA2 == Propagator(VecAdd(e2.Mom, g0.Mom), edenomA2)
        epropB1 == Propagator(VecSub(e1.Mom, g0.Mom), edenomB1)
        epropB2 == Propagator(VecAdd(e3.Mom, g0.Mom), edenomB2)
        epropC1 == epropA1
        epropC2 == epropB2
        epropD1 == epropB1
        epropD2 == epropA2
        gpropA == XDiv(ROne, InvariantSqr(VecSub(e1.Mom, e3.Mom)))
        gpropB == XDiv(ROne, InvariantSqr(VecSub(e0.Mom, e2.Mom)))
        gpropC == XDiv(ROne, InvariantSqr(VecSub(e1.Mom, e2.Mom)))
        gpropD == XDiv(ROne, InvariantSqr(VecSub(e0.Mom, e3.Mom)))
        u == Spinors("eeBremsstrahlung", <<e0, e1, e2, e3, g0>>)
        u0 == u[1][h[1]]
        u1 == u[2][h[2]]
        u2 == u[3][h[3]]
        u3 == u[4][h[4]]
        epsF == h[5] + 1
        A(bra, ket) == ChainPair(ch[1], bra, nu, epropA1, epropA2, epsF,
                                 gpropA, ket)
        B(bra, ket) == X(ch[1], bra, nu, epropB1, epropB2, epsF, gpropB, ket)
        C(bra, ket) == X(ch[1], bra, nu, epropC1, epropC2, epsF, gpropC, ket)
        D(bra, ket) == X(ch[1], bra, nu, epropD1, epropD2, epsF, gpropD, ket)
        neg(z) == CMulReal(z, RNeg(ROne))
    IN  CAdd(CAdd(CAdd(
            CMul(Vertex(ch[1], u3, mu, u1), A(u2, u0)),
            CMul(Vertex(ch[1], u2, mu, u0), B(u3, u1))),
            neg(CMul(Vertex(ch[1], u2, mu, u1), C(u3, u0)))),
            neg(CMul(Vertex(ch[1], u3, mu, u0), D(u2, u1))))

\* eeBremsstrahlung: invAmp[h0][h1][h2][h3][gf]
eeBremsstrahlungAmp(e0, e1, e2, e3, g0, ch) ==
    [h0 \in 0..1, h1 \in 0..1, h2 \in 0..1, h3 \in 0..1, gf \in 0..1 |->
        SumMu(LAMBDA mu :
            eeBremsstrahlungTerm(e0, e1, e2, e3, g0, ch, mu, mu,
                                 <<h0, h1, h2, h3, gf>>, ChainSum))]

eeBremsstrahlungSum(table, e0, e1, e2, e3, g0) ==
    Sum2(LAMBDA gf : Sum2(LAMBDA gfbar :
    Sum2(LAMBDA h0 : Sum2(LAMBDA h0bar :
    Sum2(LAMBDA h1 : Sum2(LAMBDA h1bar :
    Sum2(LAMBDA h2 : Sum2(LAMBDA h2bar :
    Sum2(LAMBDA h3 : Sum2(LAMBDA h3bar :
        CProd(<<table[h0, h1, h2, h3, gf],
                Conj(table[h0bar, h1bar, h2bar, h3bar, gfbar]),
                e0.SDM[h0][h0bar],
                e1.SDM[h1][h1bar],
                e2.SDM[h2bar][h2],
                e3.SDM[h3bar][h3],
                g0.SDM[gfbar][gf]>>)))))))))))

eeBremsstrahlungLocal(e0, e1, e2, e3, g0, table) ==
    LET ampSq == eeBremsstrahlungSum(table, e0, e1, e2, e3, g0)
        kinFactor == XDiv(XDiv(ROne, sqr(XMul(XMul(Two, PI_), e0.Mom[0]))),
                          XMul(XMul(Four, e1.Mom[0]), e3.Mom[0]))
    IN  [ampSquared |-> ampSq,
         diffXsect |->
            XMul(XMul(XMul(hbarcSqr, pow(alphaQED, 3)), ampSq.re), kinFactor),
         log |-> Warning("eeBremsstrahlung", ampSq)]

\* TCrossSection::eeBremsstrahlung(eIn0, eIn1, eOut2, eOut3, gOut)
eeBremsstrahlung(eIn0, eIn1, eOut2, eOut3, gOut, table) ==
    eeBremsstrahlungLocal(Copy(eIn0), Copy(eIn1), Copy(eOut2), Copy(eOut3),
                          Copy(gOut), table)

----------------------------------------------------------------------------
\* The calls of the reaction functions.

V(t, x, y, z) == Vec(RInt(t), RInt(x), RInt(y), RInt(z))

\* The momenta drawn as inputs, in argument order.  The first list of each
\* reaction has no zero denominator; the others make one propagator
\* denominator or one virtual-photon invariant mass zero.
Kinematics ==
    [Compton |->
        <<<<V(2, 2, 0, 0), V(1, -1, 0, 0), V(2, 0, 0, 2), V(1, 1, 0, 0)>>,
          <<V(1, 0, -1, 0), V(1, 0, -1, 0), V(1, -1, 0, 0), V(2, -1, -1, -1)>>>>,
     Bremsstrahlung |->
        <<<<V(2, 1, 1, 1), V(1, 0, 0, 1), V(1, -1, 0, 0)>>,
          <<V(1, 0, -1, 0), V(1, 0, 0, -1), V(1, 0, 0, -1)>>,
          <<V(1, -1, 0, 0), V(1, -1, 0, 0), V(1, 0, 1, 0)>>>>,
     PairProduction |->
        <<<<V(2, 2, 0, 0), V(1, 0, -1, 0), V(1, 0, 0, 1)>>,
          <<V(1, 1, 0, 0), V(1, 0, 0, 0), V(1, 1, 0, 0)>>,
          <<V(1, 0, -1, 0), V(1, 0, 0, 0), V(1, 0, 0, 0)>>>>,
     TripletProduction |->
        <<<<V(1, 0, 1, 0), V(1, 0, 0, 1), V(1, 0, 0, 0), V(1, 1, 0, 0),
            V(2, 1, -1, -1)>>,
          <<V(1, 0, -1, 0), V(1, 1, 0, 0), V(1, 0, -1, 0), V(1, 0, 0, 0),
            V(1, -1, 0, 0)>>,
          <<V(1, 0, -1, 0), V(1, 0, 0, 0), V(1, 1, 0, 0), V(1, 0, 0, 0),
            V(2, -1, 1, -1)>>>>,
     eeBremsstrahlung |->
        <<<<V(2, 1, 1, 1), V(1, 0, 1, 0), V(1, 0, 0, 1), V(1, 0, 0, 1),
            V(1, -1, 0, 0)>>,
          <<V(2, -1, 1, 1), V(1, 0, 0, 1), V(1, 0, -1, 0), V(1, 0, 0, 0),
            V(1, 0, -1, 0)>>,
          <<V(2, -1, -1, 1), V(1, 1, 0, 0), V(2, 1, 1, -1), V(1, 1, 0, 0),
            V(2, -2, 0, 0)>>>>]

\* The number of spinor chains of the amplitudes whose chains are drawn as
\* tables.
NumChains == [Compton |-> 2, Bremsstrahlung |-> 2, PairProduction |-> 2]

\* The combinations of n helicity and polarization indices.
Combinations(n) ==
    CASE n = 3 -> (0..1) \X (0..1) \X (0..1)
      [] n = 4 -> (0..1) \X (0..1) \X (0..1) \X (0..1)
      [] OTHER -> (0..1) \X (0..1) \X (0..1) \X (0..1) \X (0..1)

RECURSIVE Code(_)
\* The number of a combination, read as binary digits.
Code(h) == IF h = <<>> THEN 0 ELSE Head(h) + 2 * Code(Tail(h))

\* Spinor-chain values drawn as inputs: Gaussian integers with parts in
\* -1..1 that vary with the chain, the combination and the seed.
Numer(seed, t, k) ==
    CInt((((seed + t) * (k + 1) + (k \div 2)) % 3) - 1,
         ((seed * (k + 3) + 2 * t + (k \div 4)) % 3) - 1)

Chains(r) ==
    IF r \in {"TripletProduction", "eeBremsstrahlung"}
    THEN {<<seed>> : seed \in 1..MaxSeed}
    ELSE {[t \in 1..NumChains[r] |->
            [h \in Combinations(Len(Signature[r])) |->
                Numer(seed, t, Code(h))]] : seed \in 1..MaxSeed}

\* The spin-density matrices of n particles drawn as inputs: at most one
\* particle is polarized, or all carry the same matrix.
Polarizations(n) ==
    {f \in [1..n -> SDMSet] :
        \/ \E p \in 1..n : \A q \in (1..n) \ {p} : f[q] = Unpolarized
        \/ \A p, q \in 1..n : f[p] = f[q]}

mElectron == ROne

\* The caller's argument list for the reaction r.
Arguments(r, kin, pol) ==
    [i \in 1..Len(Signature[r]) |->
        Particle(Signature[r][i], kin[i],
                 IF Signature[r][i] = "TLepton" THEN mElectron ELSE RZero,
                 pol[i])]

Types == [i \in 1..Len(particles) |-> particles[i].type]

\* The caller has built the particles of one reaction.
InitXsect ==
    /\ \E r \in Reactions :
        \E k \in DOMAIN Kinematics[r], pol \in Polarizations(Len(Signature[r])),
           ch \in Chains(r) :
            /\ particles = Arguments(r, Kinematics[r][k], pol)
            /\ chain = ch
    /\ op = "TCrossSection"
    /\ spinors = <<>>
    /\ invAmp = <<>>
    /\ ampSquared = <<>>
    /\ diffXsect = <<>>
    /\ log = <<>>
    /\ first = <<>>
    /\ fVector = ZeroVector
    /\ made = ZeroVector
    /\ fMatrix = NoMatrix
    /\ prod = NoMatrix
    /\ NoCall

\* What a call leaves behind: the value returned, the local ampSquared at
\* the debugging check and the warning written.
Returned(name, result) ==
    /\ op' = name
    /\ spinors' = Spinors(name, [i \in DOMAIN particles |-> Copy(particles[i])])
    /\ ampSquared' = result.ampSquared
    /\ diffXsect' = result.diffXsect
    /\ log' = log \o result.log
    /\ first' = IF first = <<>>
                THEN [fn |-> name, particles |-> particles, chain |-> chain,
                      diffXsect |-> result.diffXsect, between |-> FALSE]
                ELSE [first EXCEPT !.between =
                         \/ @
                         \/ name # first.fn
                         \/ particles # first.particles
                         \/ chain # first.chain]
    /\ UNCHANGED <<particles, chain>>
    /\ UNCHANGED objVars

\* Each call fills the array invAmp from the local copies and then sums
\* over it.
CallCompton ==
    /\ Types = Signature.Compton
    /\ invAmp' = ComptonAmp(Copy(particles[1]), Copy(particles[2]),
                            Copy(particles[3]), Copy(particles[4]), chain)
    /\ Returned("Compton",
                Compton(particles[1], particles[2], particles[3],
                        particles[4], invAmp'))

CallBremsstrahlung ==
    /\ Types = Signature.Bremsstrahlung
    /\ invAmp' = BremsstrahlungAmp(Copy(particles[1]), Copy(particles[2]),
                                   Copy(particles[3]), chain)
    /\ Returned("Bremsstrahlung",
                Bremsstrahlung(particles[1], particles[2], particles[3],
                               invAmp'))

CallPairProduction ==
    /\ Types = Signature.PairProduction
    /\ invAmp' = PairProductionAmp(Copy(particles[1]), Copy(particles[2]),
                                   Copy(particles[3]), chain)
    /\ Returned("PairProduction",
                PairProduction(particles[1], particles[2], particles[3],
                               invAmp'))

CallTripletProduction ==
    /\ Types = Signature.TripletProduction
    /\ invAmp' = TripletProductionAmp(Copy(particles[1]), Copy(particles[2]),
                                      Copy(particles[3]), Copy(particles[4]),
                                      Copy(particles[5]), chain)
    /\ Returned("TripletProduction",
                TripletProduction(particles[1], particles[2], particles[3],
                                  particles[4], particles[5], invAmp'))

CalleeBremsstrahlung ==
    /\ Types = Signature.eeBremsstrahlung
    /\ invAmp' = eeBremsstrahlungAmp(Copy(particles[1]), Copy(particles[2]),
                                     Copy(particles[3]), Copy(particles[4]),
                                     Copy(particles[5]), chain)
    /\ Returned("eeBremsstrahlung",
                eeBremsstrahlung(particles[1], particles[2], particles[3],
                                 particles[4], particles[5], invAmp'))

\* One call on the particles as built.
NextXsect ==
    \/ op = "TCrossSection" /\ CallCompton
    \/ op = "TCrossSection" /\ CallBremsstrahlung
    \/ op = "TCrossSection" /\ CallPairProduction
    \/ op = "TCrossSection" /\ CallTripletProduction
    \/ op = "TCrossSection" /\ CalleeBremsstrahlung

SpecXsect == InitXsect /\ [][NextXsect]_vars

\* Runs of many calls.  The caller builds the arguments of the next call:
\* regular momenta, unpolarized or with the first particle in a pure state.
FewPolarizations(n) ==
    {[i \in 1..n |-> Unpolarized],
     [i \in 1..n |-> IF i = 1 THEN PureState(0) ELSE Unpolarized]}

InitPure ==
    /\ InitXsect
    /\ \E r \in Reactions :
        /\ Types = Signature[r]
        /\ \E pol \in FewPolarizations(Len(particles)) :
               particles = Arguments(r, Kinematics[r][1], pol)

\* The caller drops what the last call returned and builds new arguments.
NewArguments ==
    /\ op \in Reactions
    /\ \E r \in Reactions :
        \E pol \in FewPolarizations(Len(Signature[r])), ch \in Chains(r) :
            /\ particles' = Arguments(r, Kinematics[r][1], pol)
            /\ chain' = ch
    /\ op' = "TCrossSection"
    /\ spinors' = <<>>
    /\ invAmp' = <<>>
    /\ ampSquared' = <<>>
    /\ diffXsect' = <<>>
    /\ UNCHANGED <<log, first>>
    /\ UNCHANGED objVars

\* Calls in any order, each on the arguments the caller holds.
NextPure ==
    \/ CallCompton
    \/ CallBremsstrahlung
    \/ CallPairProduction
    \/ CallTripletProduction
    \/ CalleeBremsstrahlung
    \/ NewArguments

SpecPure == InitPure /\ [][NextPure]_vars

----------------------------------------------------------------------------
\* Properties of TFourVectorReal.

\* t^2 - x^2 - y^2 - z^2 of the vector object.
Inv2 ==
    RSub(RSub(RSub(RSqr(fVector[0]), RSqr(fVector[1])), RSqr(fVector[2])),
         RSqr(fVector[3]))

\* sqrt(t^2 + x^2 + y^2 + z^2) of the vector object.
Magnitude ==
    Sqrt(RAdd(RAdd(RAdd(RSqr(fVector[0]), RSqr(fVector[1])), RSqr(fVector[2])),
              RSqr(fVector[3])))

\* C1: Invariant() returns the square root of the invariant-squared when
\* that is non-negative (0 when it is 0), and 0 without an error when it is
\* negative and closer to zero than Resolution().
C1_InvariantRootOrClamp ==
    op = "Invariant" =>
        /\ ~RLess(Inv2, RZero) => ret.s = Sign(Inv2.n) /\ ret.q = Inv2 /\ err = ""
        /\ (RLess(Inv2, RZero) /\ RealLess(Real(RNeg(Inv2)), Resolution(fVector)))
              => ret = Real(RZero) /\ err = ""

C1_Witness ==
    /\ op = "Invariant"
    /\ RLess(Inv2, RZero)
    /\ ret = Real(RZero)
    /\ err = ""

\* C2: Invariant() on a vector whose invariant-squared is negative beyond
\* the tolerance reports an error and returns a negative value, and every
\* call that reports no error returns a value >= 0.
C2_InvariantErrorDistinct ==
    op = "Invariant" =>
        /\ (RLess(Inv2, RZero) /\ RealLess(Resolution(fVector), Real(RNeg(Inv2))))
              => err = InvariantErr /\ ret.s < 0
        /\ err = "" => ret.s >= 0

C2_Witness ==
    /\ op = "Invariant"
    /\ RealLess(Resolution(fVector), Real(RNeg(Inv2)))
    /\ err = InvariantErr
    /\ ret = Real(RInt(-1))

\* C3: equality is symmetric: v == w returns what w == v returns.
C3_EqSymmetric ==
    op = "operator==" => retBool = OperatorEq(other, fVector)

\* C4: equality is reflexive: v == v is true and v != v is false.
C4_EqReflexive ==
    /\ (op = "operator==" /\ other = fVector) => retBool
    /\ (op = "operator!=" /\ other = fVector) => ~retBool

C4_Witness ==
    /\ op = "operator=="
    /\ fVector = ZeroVector
    /\ other = ZeroVector
    /\ retBool

\* The Euclidean four-distance between the vector object and the operand.
Dist ==
    Sqrt(RAdd(RAdd(RAdd(RSqr(RSub(other[0], fVector[0])),
                        RSqr(RSub(other[1], fVector[1]))),
                   RSqr(RSub(other[2], fVector[2]))),
              RSqr(RSub(other[3], fVector[3]))))

C6_IndexFallback ==
    [][op' = "operator[]" =>
        /\ fVector' = fVector
        /\ idx' \in 0..3 => ret' = Real(fVector[idx']) /\ err' = ""
        /\ idx' \notin 0..3 => ret' = Real(fVector[0]) /\ err' = IndexErr]_vars

C6_Witness ==
    /\ op = "operator[]"
    /\ idx > 3
    /\ err = IndexErr
    /\ ret = Real(fVector[0])
    /\ fVector[0] # fVector[3]

\* C7 as stated: Resolution() is fResolution times the Euclidean magnitude
\* for every vector.
C7_ResolutionAlwaysScaled ==
    op = "Resolution" => ret = RealMul(Real(fResolution), Magnitude)

\* C7 amended: Resolution() is fResolution times the Euclidean magnitude for
\* every non-zero vector, and fResolution itself for the zero vector.
C7_ResolutionScaledUnlessZero ==
    op = "Resolution" =>
        IF fVector = ZeroVector
        THEN ret = Real(fResolution)
        ELSE ret = RealMul(Real(fResolution), Magnitude)

C7_Witness ==
    /\ op = "Resolution"
    /\ fVector = ZeroVector
    /\ ret = Real(fResolution)

\* The invariant-squared taken for numerical noise: the negative value
\* nearest to zero on the grid.
NoiseInvSqr == RInt(0 - 1)

\* C8 as stated: Invariant() on a vector whose invariant-squared is the
\* noise value returns 0 and reports no error, whatever the magnitude.
C8_NoiseAlwaysClamped ==
    (op = "Invariant" /\ Inv2 = NoiseInvSqr) => ret = Real(RZero) /\ err = ""

\* C8 amended: Invariant() on a vector whose invariant-squared is the noise
\* value returns 0 and reports no error when the noise is smaller than
\* Resolution(); otherwise it reports the error and returns -1.
C8_NoiseClampedWithinResolution ==
    (op = "Invariant" /\ Inv2 = NoiseInvSqr) =>
        IF RealLess(Real(RNeg(NoiseInvSqr)), RealMul(Real(fResolution), Magnitude))
        THEN ret = Real(RZero) /\ err = ""
        ELSE ret = Real(RInt(-1)) /\ err = InvariantErr

C8_Witness ==
    /\ op = "Invariant"
    /\ Inv2 = NoiseInvSqr
    /\ ret = Real(RZero)
    /\ err = ""

\* C9: a boost leaves the invariant-squared unchanged, and Invariant() on
\* the boosted vector returns what it returns on the vector as constructed.
C9_BoostKeepsInvariant ==
    (op = "Invariant" /\ fVector = Boost(made, beta)) =>
        /\ Inv2 = InvariantSqr(made)
        /\ ret = Invariant(made).ret
        /\ err = Invariant(made).err

----------------------------------------------------------------------------
\* Properties of TLorentzBoost.

\* C10: the boost for beta times the boost for -beta is the identity, and
\* Invert() turns the boost for beta into the boost whose Beta() is -beta.
C10_BoostInverse ==
    /\ (op = "operator*" /\ \A i \in 1..3 : other[i] = RNeg(beta[i]))
          => prod = Identity
    /\ op = "Invert" => Beta(fMatrix) = Neg3(beta) /\ fMatrix = SetBeta(Neg3(beta))

C10_Witness ==
    /\ op = "operator*"
    /\ beta = Skew
    /\ \A i \in 1..3 : other[i] = RNeg(beta[i])
    /\ prod = Identity

\* |beta|^2 of the velocity the boost was set from.
BetaSqr == RAdd(RAdd(RSqr(beta[1]), RSqr(beta[2])), RSqr(beta[3]))

\* C11: on a boost set from beta, Beta() returns beta and Gamma() returns
\* the positive number whose square times (1 - |beta|^2) is 1; at zero
\* velocity the matrix is the identity, Beta() is zero and Gamma() is 1.
C11_BetaGamma ==
    /\ op = "Beta" => \A i \in 1..3 : other[i] = beta[i]
    /\ op = "Gamma" =>
          /\ ret.s = 1
          /\ RMul(ret.q, RSub(ROne, BetaSqr)) = ROne
    /\ (op \in {"SetBeta", "Beta", "Gamma"} /\ beta = Zero3) =>
          /\ fMatrix = Identity
          /\ op = "Beta" => other = ZeroVector
          /\ op = "Gamma" => ret = Real(ROne)

C11_Witness ==
    /\ op = "Gamma"
    /\ beta = Vec3(RZero, Rat(4, 5), RZero)
    /\ ret = Real(Rat(5, 3))

----------------------------------------------------------------------------
\* Properties of TThreeRotation.

\* C13: applying R1 and then R2 to a three-vector gives the vector that the
\* composed rotation R2*R1 gives, and R2*R1 is the identity on the time
\* component and orthogonal on the space block.
C13_RotationComposition ==
    /\ op = "operator*(vec)" => fVector = made
    /\ op \in {"operator*", "operator*(vec)"} =>
          /\ \A i \in 0..3 :
                /\ prod[0][i] = (IF i = 0 THEN ROne ELSE RZero)
                /\ prod[i][0] = (IF i = 0 THEN ROne ELSE RZero)
          /\ \A i, j \in 1..3 :
                RAdd(RAdd(RMul(prod[1][i], prod[1][j]),
                          RMul(prod[2][i], prod[2][j])),
                     RMul(prod[3][i], prod[3][j]))
                    = (IF i = j THEN ROne ELSE RZero)

C13_Witness ==
    /\ op = "operator*(vec)"
    /\ fMatrix = SetAxis(Vec3(RZero, RZero, ROne), Angles[2])
    /\ beta = Vec3(Rat(2, 3), Rat(2, 3), Rat(1, 3))
    /\ idx = 5
    /\ fVector = made
    /\ fVector # other

----------------------------------------------------------------------------
\* Properties of TCrossSection.

\* The body of the reaction function name, on the particles p and the
\* filled array table.
LocalOn(name, p, table) ==
    CASE name = "Compton" -> ComptonLocal(p[1], p[2], p[3], p[4], table)
      [] name = "Bremsstrahlung" -> BremsstrahlungLocal(p[1], p[2], p[3], table)
      [] name = "PairProduction" -> PairProductionLocal(p[1], p[2], p[3], table)
      [] name = "TripletProduction" ->
            TripletProductionLocal(p[1], p[2], p[3], p[4], p[5], table)
      [] OTHER -> eeBremsstrahlungLocal(p[1], p[2], p[3], p[4], p[5], table)

\* A reaction function has just returned.
Called == op \in Reactions

\* C14: every call of a reaction function leaves each photon and lepton of
\* the caller with the momentum, mass and spin-density matrix it had, and
\* the local copies it works on carry these same values: the amplitude
\* squared and the value returned are those of the caller's particles.
C14_CallerParticlesKept ==
    [][op' # op =>
        /\ particles' = particles
        /\ LET onCaller == LocalOn(op', particles, invAmp')
           IN  /\ ampSquared' = onCaller.ampSquared
               /\ diffXsect' = onCaller.diffXsect]_vars

\* A call on a polarized outgoing positron has returned a finite non-zero
\* value.
C14_Witness ==
    /\ op = "TripletProduction"
    /\ particles[3].SDM = Matrix2(COne, CInt(0, 0 - 1), CInt(0, 1), COne)
    /\ IsFinite(diffXsect)
    /\ diffXsect.n # 0

Slot ==
    [Compton |-> <<2, 4, 1, 3>>,
     Bremsstrahlung |-> <<1, 2, 3>>,
     PairProduction |-> <<3, 2, 1>>,
     TripletProduction |-> <<2, 3, 4, 5, 1>>,
     eeBremsstrahlung |-> <<1, 2, 3, 4, 5>>]

\* The arguments that are outgoing particles, and those of them that are
\* antileptons.
Outgoing ==
    [Compton |-> {3, 4},
     Bremsstrahlung |-> {2, 3},
     PairProduction |-> {2, 3},
     TripletProduction |-> {3, 4, 5},
     eeBremsstrahlung |-> {3, 4, 5}]

Antileptons ==
    [Compton |-> {},
     Bremsstrahlung |-> {},
     PairProduction |-> {3},
     TripletProduction |-> {3},
     eeBremsstrahlung |-> {}]

\* The sum over all pairs (h, hbar) of index combinations of
\* table[h] * conj(table[hbar]) * the spin-density matrix elements of the
\* particles p, taken as SDM[hbar][h] for the arguments in reversed and as
\* SDM[h][hbar] for the others.
Contraction(r, table, p, reversed) ==
    LET n == Len(Slot[r])
        term(k) ==
            LET h == [j \in 1..n |-> Bit(k, 2 * (j - 1))]
                hbar == [j \in 1..n |-> Bit(k, 2 * j - 1)]
            IN  CProd(<<table[h], Conj(table[hbar])>> \o
                      [j \in 1..n |->
                          IF Slot[r][j] \in reversed
                          THEN p[Slot[r][j]].SDM[hbar[j]][h[j]]
                          ELSE p[Slot[r][j]].SDM[h[j]][hbar[j]]])
    IN  CSum([k \in 0..(Pow2(2 * n) - 1) |-> term(k)], 0, Pow2(2 * n) - 1)

\* C16 as stated: in every spin sum each incoming particle is contracted as
\* SDM[h][hbar] and each outgoing particle, the antileptons included, as
\* SDM[hbar][h].
C16_OutgoingAllReversed ==
    [][op' # op =>
        ampSquared' = Contraction(op', invAmp', particles, Outgoing[op'])]_vars

\* C16 amended: in every spin sum each incoming particle and each outgoing
\* antilepton is contracted as SDM[h][hbar], and each outgoing lepton and
\* photon as SDM[hbar][h].
C16_OutgoingReversedButAntileptons ==
    [][op' # op =>
        ampSquared' = Contraction(op', invAmp', particles,
                                  Outgoing[op'] \ Antileptons[op'])]_vars

\* PairProduction has returned for a positron whose spin-density matrix is
\* not symmetric, and the two orders of its indices give different sums.
C16_Witness ==
    /\ op = "PairProduction"
    /\ particles[3].SDM[0][1] # particles[3].SDM[1][0]
    /\ CFinite(ampSquared)
    /\ ampSquared # Contraction(op, invAmp, particles, Outgoing[op])

\* The matrices of C17: the identity, and a single 1 at [k][k].
IsIdentity(sdm) == sdm = Matrix2(COne, CZero, CZero, COne)

IsPure(sdm, k) ==
    sdm = [h \in 0..1 |-> [j \in 0..1 |->
              IF h = k /\ j = k THEN COne ELSE CZero]]

\* The spin sum with the weights of C17: a particle with the identity
\* matrix keeps the terms with h = hbar, a particle with the pure state k
\* keeps the terms with h = hbar = k, each with weight 1; every other
\* particle weighs the term by its matrix element.
Projected(r, table, p) ==
    LET n == Len(Slot[r])
        sdm(j) == p[Slot[r][j]].SDM
        plain(j) == IsIdentity(sdm(j)) \/ IsPure(sdm(j), 0) \/ IsPure(sdm(j), 1)
        kept(j, a, b) ==
            /\ a = b
            /\ IsPure(sdm(j), 0) => a = 0
            /\ IsPure(sdm(j), 1) => a = 1
        term(k) ==
            LET h == [j \in 1..n |-> Bit(k, 2 * (j - 1))]
                hbar == [j \in 1..n |-> Bit(k, 2 * j - 1)]
            IN  IF \A j \in 1..n : plain(j) => kept(j, h[j], hbar[j])
                THEN CProd(<<table[h], Conj(table[hbar])>> \o
                           [j \in 1..n |->
                               IF plain(j) THEN COne
                               ELSE IF Slot[r][j] \in Outgoing[r] \ Antileptons[r]
                               THEN sdm(j)[hbar[j]][h[j]]
                               ELSE sdm(j)[h[j]][hbar[j]]])
                ELSE CZero
    IN  CSum([k \in 0..(Pow2(2 * n) - 1) |-> term(k)], 0, Pow2(2 * n) - 1)

\* Every element of the array is finite.
FiniteTable(table) == \A h \in DOMAIN table : CFinite(table[h])

\* C17: in every spin sum over finite amplitudes, a particle with the
\* identity matrix is summed over its two states without weights (only the
\* terms with h = hbar count, each once), and a particle in the pure state
\* k keeps only the terms with h = hbar = k.
C17_IdentityAndPureStates ==
    [][op' # op /\ FiniteTable(invAmp') =>
        ampSquared' = Projected(op', invAmp', particles)]_vars

\* Bremsstrahlung has returned a non-zero sum for an incoming electron in
\* the pure state 1 and an outgoing electron and photon with the identity
\* matrix.
C17_Witness ==
    /\ op = "Bremsstrahlung"
    /\ IsPure(particles[1].SDM, 1)
    /\ IsIdentity(particles[2].SDM)
    /\ IsIdentity(particles[3].SDM)
    /\ FiniteTable(invAmp)
    /\ ampSquared # CZero

\* sdm[1][0] is the conjugate of sdm[0][1] and the diagonal is real.
Hermitian(sdm) ==
    /\ sdm[0][0].im = RZero
    /\ sdm[1][1].im = RZero
    /\ sdm[1][0].re = sdm[0][1].re
    /\ sdm[1][0].im = RNeg(sdm[0][1].im)

\* A Hermitian two-by-two matrix has no negative eigenvalue: its diagonal
\* and its determinant are not negative.
PositiveSemidefinite(sdm) ==
    /\ ~RLess(sdm[0][0].re, RZero)
    /\ ~RLess(sdm[1][1].re, RZero)
    /\ ~RLess(RMul(sdm[0][0].re, sdm[1][1].re),
              RAdd(RSqr(sdm[0][1].re), RSqr(sdm[0][1].im)))

AllPhysical ==
    \A i \in 1..Len(particles) :
        Hermitian(particles[i].SDM) /\ PositiveSemidefinite(particles[i].SDM)

\* C18: for finite amplitudes and spin-density matrices that are all
\* Hermitian and positive semidefinite, the ampSquared of every reaction
\* function has imaginary part zero and a real part that is not negative.
C18_AmpSquaredRealNonNegative ==
    Called /\ AllPhysical /\ FiniteTable(invAmp) =>
        /\ ampSquared.im = RZero
        /\ IsFinite(ampSquared.re)
        /\ ~RLess(ampSquared.re, RZero)

\* eeBremsstrahlung has returned with a positive ampSquared for five
\* particles whose matrices are Hermitian and positive with off-diagonal
\* elements that are not real.
C18_Witness ==
    /\ op = "eeBremsstrahlung"
    /\ AllPhysical
    /\ \A i \in 1..Len(particles) : particles[i].SDM[0][1].im # RZero
    /\ FiniteTable(invAmp)
    /\ RLess(RZero, ampSquared.re)

\* C19 as stated: every reaction function writes a warning when the real
\* part of its ampSquared is negative or the imaginary part exceeds 1e-8 of
\* the magnitude, writes nothing otherwise, and returns the value of the
\* computation without the check.
C19_EveryFunctionWarns ==
    [][op' # op =>
        /\ BadAmplitude(ampSquared') => Len(log') = Len(log) + 1
        /\ ~BadAmplitude(ampSquared') => log' = log
        /\ diffXsect' = LocalOn(op', particles, invAmp').diffXsect]_vars

\* C19 amended: Bremsstrahlung, PairProduction, TripletProduction and
\* eeBremsstrahlung write a warning when the real part of ampSquared is
\* negative or the imaginary part exceeds 1e-8 of the magnitude, and
\* nothing otherwise; Compton never writes one; all five return the value
\* of the computation without the check.
C19_AllButComptonWarn ==
    [][op' # op =>
        /\ op' # "Compton" /\ BadAmplitude(ampSquared') =>
              Len(log') = Len(log) + 1
        /\ op' = "Compton" \/ ~BadAmplitude(ampSquared') => log' = log
        /\ diffXsect' = LocalOn(op', particles, invAmp').diffXsect]_vars

\* PairProduction has written a warning for an ampSquared with a positive
\* real part and an imaginary part that is not zero, and has returned a
\* finite value.
C19_Witness ==
    /\ op = "PairProduction"
    /\ log # <<>>
    /\ RLess(RZero, ampSquared.re)
    /\ IsFinite(ampSquared.im)
    /\ ampSquared.im # RZero
    /\ IsFinite(diffXsect)

\* The fermion-propagator denominators (up to the factor 2) and the
\* virtual-photon invariant masses squared that the function r divides by,
\* for the arguments p.
Denominators(r, p) ==
    LET m(i) == p[i].Mom
        dot(i, j) == ScalarProd(m(i), m(j))
        sum2(i, j) == InvariantSqr(VecAdd(m(i), m(j)))
        diff2(i, j) == InvariantSqr(VecSub(m(i), m(j)))
        q == VecSub(VecSub(m(1), m(2)), m(3))
    IN  CASE r = "Compton" -> {dot(2, 1), dot(2, 3)}
          [] r = "Bremsstrahlung" ->
                {RSub(InvariantSqr(q), RMul(RInt(2), ScalarProd(q, m(1)))),
                 RAdd(InvariantSqr(q), RMul(RInt(2), ScalarProd(q, m(2)))),
                 InvariantSqr(q)}
          [] r = "PairProduction" -> {dot(1, 2), dot(1, 3), InvariantSqr(q)}
          [] r = "TripletProduction" ->
                {dot(1, 2), dot(1, 3), dot(1, 4), dot(1, 5),
                 sum2(3, 5), diff2(2, 4), sum2(3, 4), diff2(2, 5)}
          [] OTHER ->
                {dot(5, 1), dot(5, 2), dot(5, 3), dot(5, 4),
                 diff2(2, 4), diff2(1, 3), diff2(2, 3), diff2(1, 4)}

\* C20: when the momenta make a fermion-propagator denominator or a
\* virtual-photon invariant mass squared zero, the call reports no error
\* and returns an infinite or NaN value.
C20_ZeroDenominatorNotFinite ==
    Called /\ RZero \in Denominators(op, particles) =>
        /\ ~IsFinite(diffXsect)
        /\ err = ""

\* TripletProduction has returned for momenta with a zero denominator.
C20_Witness ==
    /\ op = "TripletProduction"
    /\ RZero \in Denominators(op, particles)
    /\ ~IsFinite(diffXsect)
    /\ err = ""

----------------------------------------------------------------------------
\* Properties of the remaining member functions.

\* C28: an assignment v[i] = x through an index out of range overwrites the
\* time component v[0] with x and leaves the components 1..3 as they were;
\* an assignment through an index in range changes component i only.
C28_AssignThroughIndex ==
    [][op' = "operator[]=" =>
        LET target == IF idx' < 0 \/ idx' > 3 THEN 0 ELSE idx'
        IN  /\ Real(fVector'[target]) = ret'
            /\ \A i \in (0..3) \ {target} : fVector'[i] = fVector[i]]_vars

\* An assignment through the index 5 has replaced the time component of the
\* constructed vector and nothing else.
C28_Witness ==
    /\ op = "operator[]="
    /\ idx = 5
    /\ fVector[0] # made[0]
    /\ \A i \in 1..3 : fVector[i] = made[i]
    /\ err = IndexErr

\* C29: ScalarProd is the product of the +--- metric of InvariantSqr: the
\* product of a vector with itself is its InvariantSqr, the product is the
\* same with the operands exchanged, and the call leaves the vector it is
\* called on as it was.
C29_ScalarProdMetric ==
    [][op' = "ScalarProd" =>
        /\ fVector' = fVector
        /\ ret' = Real(RSub(RMul(other'[0], fVector[0]),
                            RAdd(RAdd(RMul(other'[1], fVector[1]),
                                      RMul(other'[2], fVector[2])),
                                 RMul(other'[3], fVector[3]))))
        /\ other' = fVector => ret' = Real(InvariantSqr(fVector))]_vars

\* The product of a space-like vector with itself has been returned: it is
\* negative.
C29_Witness ==
    /\ op = "ScalarProd"
    /\ other = fVector
    /\ ret.s < 0
    /\ ret = Real(InvariantSqr(fVector))

\* Two velocities that are not zero point the same way.
SameDirection(a, b) ==
    /\ a # Zero3
    /\ b # Zero3
    /\ \A i, j \in 1..3 : RMul(a[i], b[j]) = RMul(a[j], b[i])
    /\ RLess(RZero, RAdd(RAdd(RMul(a[1], b[1]), RMul(a[2], b[2])),
                         RMul(a[3], b[3])))

\* C30 as stated: SetGamma(gamma) on a boost with a velocity that is not
\* zero leaves the direction of Beta() as it was and makes Gamma() equal to
\* gamma.
C30_SetGammaKeepsDirection ==
    [][op' = "SetGamma" =>
        /\ SameDirection(Beta(fMatrix), Beta(fMatrix'))
        /\ Real(Gamma(fMatrix')) = ret']_vars

\* C30 amended: SetGamma(gamma) on a boost with a velocity that is not zero
\* makes Gamma() equal to gamma; for gamma > 1 the direction of Beta() is
\* the one the matrix had before the call, and for gamma = 1 the boost
\* becomes the identity, whose velocity is zero.
C30_SetGammaKeepsDirectionAboveOne ==
    [][op' = "SetGamma" =>
        /\ Real(Gamma(fMatrix')) = ret'
        /\ RealLess(Real(ROne), ret') =>
              SameDirection(Beta(fMatrix), Beta(fMatrix'))
        /\ ret' = Real(ROne) => fMatrix' = Identity]_vars

\* SetGamma(5/3) has been called on a boost whose velocity was not along an
\* axis.
C30_Witness ==
    /\ op = "SetGamma"
    /\ ret = Real(Rat(5, 3))
    /\ Gamma(fMatrix) = Rat(5, 3)
    /\ \A i \in 1..3 : Beta(fMatrix)[i] # RZero

\* C25: every call of Compton returns hbarcSqr * alphaQED^2 *
\* Re(ampSquared) * kinFactor, with kinFactor = 4 rhoFin / fluxIn of the
\* arguments; the Klein Nishina value written after the return is not what
\* comes back.
C25_ComptonReturnsSpinSum ==
    op = "Compton" =>
        LET gI == particles[1]
            eI == particles[2]
            gF == particles[3]
            eF == particles[4]
            fluxIn == XMul(Four, XMul(gI.Mom[0],
                                      XAdd(Length(eI.Mom), eI.Mom[0])))
            rhoFin == XDiv(sqr(gF.Mom[0]),
                           XMul(ScalarProd(eF.Mom, gF.Mom), Four))
        IN  diffXsect = XMul(hbarcSqr,
                             XMul(sqr(alphaQED),
                                  XMul(ampSquared.re,
                                       XDiv(XMul(Four, rhoFin), fluxIn))))

\* A Compton call whose finite, non-zero value is not the Klein Nishina
\* value of its arguments.
C25_Witness ==
    /\ op = "Compton"
    /\ IsFinite(diffXsect)
    /\ diffXsect # RZero
    /\ IsFinite(KleinNishinaResult(particles[1], particles[2], particles[3]))
    /\ diffXsect # KleinNishinaResult(particles[1], particles[2], particles[3])

\* x >= 0 as the floating-point unit compares: false for NaN.
NonNegative(x) == ~IsNaN(x) /\ ~XLess(x, RZero)

\* hbarcSqr * alphaQED^3 / ((2 pi E_in)^2 (q^2)^2)
RecoilFactor(Ein, qSqr) ==
    XDiv(XMul(hbarcSqr, pow(alphaQED, 3)),
         XMul(sqr(XMul(Two, XMul(PI_, Ein))), sqr(qSqr)))

\* The recoil momentum of Bremsstrahlung and PairProduction: the first
\* argument minus the two others.
Recoil(p) == VecSub(p[1].Mom, VecAdd(p[2].Mom, p[3].Mom))

\* What multiplies real(ampSquared) in the reaction r called on p.
Factor(r, p) ==
    CASE r = "Compton" ->
            XDiv(XMul(XMul(hbarcSqr, sqr(alphaQED)),
                      XDiv(sqr(p[3].Mom[0]), ScalarProd(p[4].Mom, p[3].Mom))),
                 XMul(XMul(Four, p[1].Mom[0]),
                      XAdd(Length(p[2].Mom), p[2].Mom[0])))
      [] r \in {"Bremsstrahlung", "PairProduction"} ->
            RecoilFactor(p[1].Mom[0], InvariantSqr(Recoil(p)))
      [] r = "TripletProduction" ->
            XDiv(XMul(XMul(hbarcSqr, pow(alphaQED, 3)),
                      XMul(pow(XMul(Two, PI_), 4 - 9),
                           pow(XMul(Four, PI_), 3))),
                 XMul(XMul(XMul(Four, p[1].Mom[0]),
                           XAdd(Length(p[2].Mom), p[2].Mom[0])),
                      XMul(XMul(RInt(8), p[5].Mom[0]),
                           Length(VecAdd(p[3].Mom, p[4].Mom)))))
      [] OTHER ->
            XDiv(XMul(hbarcSqr, pow(alphaQED, 3)),
                 XMul(sqr(XMul(XMul(Two, PI_), p[1].Mom[0])),
                      XMul(XMul(Four, p[2].Mom[0]), p[4].Mom[0])))

\* C26: every reaction function returns real(ampSquared) times a factor of
\* the momenta and constants alone, whatever the imaginary part is; in
\* Bremsstrahlung and PairProduction with incident energy and recoil
\* invariant not zero that factor is finite and positive, and the value
\* returned is >= 0 exactly when real(ampSquared) is.
C26_RealPartTimesPositiveFactor ==
    op \in Reactions =>
        /\ diffXsect = XMul(ampSquared.re, Factor(op, particles))
        /\ ( /\ op \in {"Bremsstrahlung", "PairProduction"}
             /\ particles[1].Mom[0] # RZero
             /\ InvariantSqr(Recoil(particles)) # RZero )
           => /\ IsFinite(Factor(op, particles))
              /\ XLess(RZero, Factor(op, particles))
              /\ NonNegative(diffXsect) <=> NonNegative(ampSquared.re)

\* A Bremsstrahlung call with non-zero recoil invariant whose ampSquared has
\* an imaginary part that is not zero and a positive real part, which the
\* value returned follows.
C26_Witness ==
    /\ op = "Bremsstrahlung"
    /\ InvariantSqr(Recoil(particles)) # RZero
    /\ IsFinite(ampSquared.re)
    /\ IsFinite(ampSquared.im)
    /\ ampSquared.im # RZero
    /\ XLess(RZero, ampSquared.re)
    /\ IsFinite(diffXsect)
    /\ XLess(RZero, diffXsect)

\* C27: every reaction function builds one array of two spinors for each
\* lepton among its arguments and none for a photon; element 0 has helicity
\* +1/2 and element 1 helicity -1/2, both at the momentum of that lepton;
\* the solution is V for the outgoing antilepton of PairProduction and of
\* TripletProduction and U for every other lepton.
C27_TwoSpinorsPerFermion ==
    op \in Reactions =>
        /\ DOMAIN spinors =
               {i \in DOMAIN particles : particles[i].type = "TLepton"}
        /\ \A i \in DOMAIN spinors :
            /\ DOMAIN spinors[i] = 0..1
            /\ spinors[i][0].helicity = Rat(1, 2)
            /\ spinors[i][1].helicity = Rat(-1, 2)
            /\ \A h \in 0..1 :
                /\ spinors[i][h].Mom = particles[i].Mom
                /\ spinors[i][h].solution =
                       IF i \in Antileptons[op] THEN "V" ELSE "U"

\* A TripletProduction call: the positron has two V spinors, the three
\* electrons two U spinors each.
C27_Witness ==
    /\ op = "TripletProduction"
    /\ DOMAIN spinors = 2..5
    /\ spinors[3][0].solution = "V"
    /\ spinors[3][1].solution = "V"
    /\ \A i \in {2, 4, 5} : spinors[i][1].solution = "U"

\* Feynman rule 6: the tensor g(mu, nu) of the photon propagator.
MetricTensor(mu, nu) == IF mu # nu THEN 0 ELSE IF mu = 0 THEN 1 ELSE -1

Sum4(F(_)) == CAdd(CAdd(CAdd(F(0), F(1)), F(2)), F(3))

\* The sum of g(mu, nu) * F(mu, nu) over the components of g that are not
\* zero.
Contracted(F(_, _)) ==
    Sum4(LAMBDA mu : Sum4(LAMBDA nu :
        IF MetricTensor(mu, nu) = 0 THEN CZero
        ELSE CMulReal(F(mu, nu), RInt(MetricTensor(mu, nu)))))

C24_AllPairsAreProductChains ==
    op = "eeBremsstrahlung" =>
        \A h \in Combinations(5) :
            invAmp[h] = SumMu(LAMBDA mu :
                eeBremsstrahlungTerm(particles[1], particles[2],
                                     particles[3], particles[4],
                                     particles[5], chain, mu, mu, h,
                                     ChainPair))

\* The arguments of TripletProduction or eeBremsstrahlung with the objects
\* eOut2 and eOut3 exchanged.
Exchanged(r, p) ==
    IF r = "TripletProduction"
    THEN [p EXCEPT ![4] = p[5], ![5] = p[4]]
    ELSE [p EXCEPT ![3] = p[4], ![4] = p[3]]

\* invAmp of the reaction r called on p.
AmpOn(r, p, ch) ==
    IF r = "TripletProduction"
    THEN TripletProductionAmp(p[1], p[2], p[3], p[4], p[5], ch)
    ELSE eeBremsstrahlungAmp(p[1], p[2], p[3], p[4], p[5], ch)

\* The sum over spins of the reaction r on the particles p.
SumOn(r, table, p) ==
    IF r = "TripletProduction"
    THEN TripletProductionSum(table, p[1], p[2], p[3], p[4], p[5])
    ELSE eeBremsstrahlungSum(table, p[1], p[2], p[3], p[4], p[5])

\* Minus the table with the indices h2 and h3 exchanged.
MinusExchanged(table) ==
    [h0 \in 0..1, h1 \in 0..1, h2 \in 0..1, h3 \in 0..1, g \in 0..1 |->
        CMulReal(table[h0, h1, h3, h2, g], RNeg(ROne))]

\* Calling r with eOut2 and eOut3 exchanged gives minus every element of
\* invAmp at h2 and h3 exchanged, and with that table the same ampSquared.
ExchangeAntisymmetric(r) ==
    LET q == Exchanged(r, particles')
        exchanged == AmpOn(r, q, chain')
    IN  /\ \A h \in Combinations(5) : exchanged[h] = MinusExchanged(invAmp')[h]
        /\ SumOn(r, MinusExchanged(invAmp'), q) = ampSquared'

\* C23 as stated: the amplitude of TripletProduction and of eeBremsstrahlung
\* changes sign when the two outgoing electrons are exchanged, momenta and
\* helicity indices together, and ampSquared stays the same.
C23_ExchangeAntisymmetric ==
    [][op' # op /\ op' \in {"TripletProduction", "eeBremsstrahlung"} =>
        ExchangeAntisymmetric(op')]_vars

\* The same for TripletProduction alone.
TripletExchangeAntisymmetric ==
    [][op' # op /\ op' = "TripletProduction" =>
        ExchangeAntisymmetric(op')]_vars

-----------------------------------------------------------------------------
\* Compton scattering of unpolarized particles on an electron at rest, and
\* the Klein Nishina formula.

\* The spin-density matrix identity/2.
HalfUnit ==
    Matrix2(Complex(Rat(1, 2), RZero), CZero, CZero, Complex(Rat(1, 2), RZero))

\* The four momenta of a photon of energy w along z on an electron at rest
\* that leaves at the angle with cosine c and sine s in the x-z plane.
RestFrame(w, c, s) ==
    LET wOut == RDiv(RMul(w, mElectron),
                     RAdd(mElectron, RMul(w, RSub(ROne, c))))
        gI == Vec(w, RZero, RZero, w)
        eI == Vec(mElectron, RZero, RZero, RZero)
        gF == Vec(wOut, RMul(wOut, s), RZero, RMul(wOut, c))
    IN  <<gI, eI, gF, VecSub(VecAdd(gI, eI), gF)>>

\* The photon energies, in electron masses, and the angles drawn as inputs.
RestFrameEnergies ==
    {Rat(1, 3), Rat(1, 2), ROne, Rat(3, 2), Two, RInt(3), Four}

RestFrameAngles ==
    {<<RZero, ROne>>, <<RInt(-1), RZero>>, <<Rat(3, 5), Rat(4, 5)>>,
     <<Rat(-3, 5), Rat(4, 5)>>}

\* The sum of |invAmp|^2 over the sixteen helicity combinations that the
\* Dirac algebra gives with states normalized to 2E:
\* 8 (w'/w + w/w' - sin^2 theta).
UnpolarizedSum(gI, gF) ==
    LET ratio == XDiv(gF[0], gI[0])
        sinSqrTheta == XSub(ROne, sqr(XDiv(gF[3], gF[0])))
    IN  XMul(RInt(8), XSub(XAdd(ratio, XDiv(gI[0], gF[0])), sinSqrTheta))

\* The sum of |table|^2 over the sixteen helicity combinations.
SumOverAll(table) ==
    LET all == Particle("any", ZeroVector, RZero, Unpolarized)
    IN  ComptonSum(table, all, all, all, all).re

\* An amplitude table in which k combinations carry c or i c, and the
\* others nothing.
EqualModulus(k, c, seed) ==
    [hi \in 0..1, hf \in 0..1, gi \in 0..1, gf \in 0..1 |->
        LET code == (8 * hi + 4 * hf + 2 * gi + gf + 5 * seed) % 16
        IN  IF code >= k THEN CZero
            ELSE IF code % 2 = 0 THEN c ELSE CMul(c, CInt(0, 1))]

\* The two chain tables that give the amplitudes amp, half of each from
\* either diagram.
ChainsOf(amp, kin) ==
    LET edenom1 == XMul(Two, ScalarProd(kin[2], kin[1]))
        edenom2 == XMul(RNeg(Two), ScalarProd(kin[2], kin[3]))
    IN  <<[h \in DOMAIN amp |-> CMulReal(amp[h], XDiv(edenom1, Two))],
          [h \in DOMAIN amp |-> CMulReal(amp[h], XDiv(edenom2, Two))]>>

\* The moduli drawn for the amplitudes.
Moduli ==
    {Complex(Rat(a, d), Rat(b, d)) : a \in 0..4, b \in 1..4, d \in {1, 3}}

\* The chain tables drawn for the momenta kin that obey the sum rule.
RestFrameChains(kin) ==
    {ChainsOf(EqualModulus(p[1], p[2], seed), kin) :
        p \in {q \in (1..16) \X Moduli :
                XMul(RInt(q[1]), XAdd(sqr(q[2].re), sqr(q[2].im)))
                    = UnpolarizedSum(kin[1], kin[3])},
        seed \in 1..MaxSeed}

\* The spin-density matrices of gIn, eIn, gOut, eOut drawn as inputs:
\* incoming identity/2 with outgoing unit matrices, identity/2 throughout,
\* unit matrices throughout, and one pure state among unit matrices.
RestFramePolarizations ==
    {<<HalfUnit, HalfUnit, Unpolarized, Unpolarized>>,
     <<HalfUnit, HalfUnit, HalfUnit, HalfUnit>>,
     <<Unpolarized, Unpolarized, Unpolarized, Unpolarized>>,
     <<HalfUnit, HalfUnit, PureState(0), Unpolarized>>}

InitKN ==
    /\ \E w \in RestFrameEnergies, a \in RestFrameAngles,
          pol \in RestFramePolarizations :
        LET kin == RestFrame(w, a[1], a[2])
        IN  \E ch \in RestFrameChains(kin) :
            /\ particles = Arguments("Compton", kin, pol)
            /\ chain = ch
    /\ op = "TCrossSection"
    /\ spinors = <<>>
    /\ invAmp = <<>>
    /\ ampSquared = <<>>
    /\ diffXsect = <<>>
    /\ log = <<>>
    /\ first = <<>>
    /\ fVector = ZeroVector
    /\ made = ZeroVector
    /\ fMatrix = NoMatrix
    /\ prod = NoMatrix
    /\ NoCall

\* One call of Compton on the arguments as built.
NextKN == op = "TCrossSection" /\ CallCompton

SpecKN == InitKN /\ [][NextKN]_vars

\* The particles carry the spin-density matrices pol, in argument order.
Polarized(pol) == \A i \in 1..4 : particles[i].SDM = pol[i]

\* C21 (as the source's rule 8 has it): when Compton is called on a photon
\* and an electron at rest whose spin-density matrices are identity/2, with
\* unit matrices for the outgoing photon and electron (the sum over final
\* polarizations), and the amplitudes obey the unpolarized sum rule, the
\* value returned is the Klein Nishina cross section; with identity/2 for
\* all four particles it is a quarter of it.
C21_KleinNishinaSummedOverFinal ==
    (op = "Compton"
        /\ SumOverAll(invAmp)
             = UnpolarizedSum(particles[1].Mom, particles[3].Mom))
    => LET KN == KleinNishinaResult(particles[1], particles[2], particles[3])
       IN  /\ Polarized(<<HalfUnit, HalfUnit, Unpolarized, Unpolarized>>)
                => diffXsect = KN
           /\ Polarized(<<HalfUnit, HalfUnit, HalfUnit, HalfUnit>>)
                => diffXsect = XDiv(KN, Four)

\* C21 as claimed: with identity/2 for all four particles the value
\* returned is the Klein Nishina cross section.
C21_KleinNishinaAllHalf ==
    (op = "Compton"
        /\ SumOverAll(invAmp)
             = UnpolarizedSum(particles[1].Mom, particles[3].Mom)
        /\ Polarized(<<HalfUnit, HalfUnit, HalfUnit, HalfUnit>>))
    => diffXsect = KleinNishinaResult(particles[1], particles[2], particles[3])

\* Compton has returned for a photon of one electron mass scattered by 90
\* degrees, incoming particles unpolarized and outgoing polarizations
\* summed, and the value is the finite, positive Klein Nishina cross
\* section.
C21_Witness ==
    /\ op = "Compton"
    /\ particles[1].Mom = Vec(ROne, RZero, RZero, ROne)
    /\ particles[3].Mom = Vec(Rat(1, 2), Rat(1, 2), RZero, RZero)
    /\ Polarized(<<HalfUnit, HalfUnit, Unpolarized, Unpolarized>>)
    /\ SumOverAll(invAmp) = RInt(12)
    /\ diffXsect = KleinNishinaResult(particles[1], particles[2], particles[3])
    /\ XLess(RZero, diffXsect)

====
